---------------------------- MODULE Spec2Model ----------------------------
(***************************************************************************)
(* Model of the locomotive dashboard: the sheet query service              *)
(* (services/googleSheetService.ts) and the failures summary views         *)
(* (FailuresSummary: processSummary, processWdg4GroupedSummary,            *)
(* sumSummaryTotals).                                                      *)
(*                                                                         *)
(* A JavaScript string is modelled as a sequence of one-character strings, *)
(* so that trimming, case conversion, splitting and prefix tests are       *)
(* computed the way the code computes them.                                *)
(***************************************************************************)
EXTENDS Integers, Sequences, FiniteSets, TLC

VARIABLES
    allFailures,  \* the failure records loaded from the sheet, in row order
    lastCall,     \* the aggregation call made last, with its arguments
    lastResult,   \* what that call returned
    locoNo,       \* getLocoData: the argument of the running query
    pc,           \* getLocoData: where the query stands
    fetchState,   \* per sheet: "idle", "pending", "ok" or "failed"
    fetched,      \* per sheet: the record list fetchSheet resolved with
    issued,       \* the sheets whose retrieval this query has issued
    keys,         \* getLocoData: the key column detected per sheet
    details,      \* getLocoData: the record found in a master list, or null
    locoType,     \* getLocoData: "WAG7", "WDG4" or "null"
    result,       \* getLocoData: the value the promise resolved with
    spreadsheet,  \* the master spreadsheet: per tab its rows of cells
    posts,        \* the number of edit requests handled
    modalError,   \* EditFailureModal: the error shown, or null
    filteredFailures, \* summary view: the records shown, as positions in allFailures
    startDate,    \* summary view: the start of the date filter, or ''
    endDate,      \* summary view: the end of the date filter, or ''
    pageLocoNo,   \* App: the state locoNo, the number searched last
    isLoading,    \* App: a search is running
    error,        \* App: the error message, or null
    pageData,     \* App: the state data, the result shown, or null
    view,         \* App: "home", "summary" or "failuresSummary"
    pending,      \* App: the calls of getLocoData that have not settled
    searches      \* App: the number of searches started

sumVars == <<allFailures, lastCall, lastResult>>
qVars == <<locoNo, pc, fetchState, fetched, issued, keys, details, locoType, result>>
editVars == <<spreadsheet, posts, modalError>>
viewVars == <<filteredFailures, startDate, endDate>>
appVars == <<pageLocoNo, isLoading, error, pageData, view, pending, searches>>
vars == <<allFailures, lastCall, lastResult, locoNo, pc, fetchState, fetched, issued, keys,
          details, locoType, result, spreadsheet, posts, modalError, filteredFailures,
          startDate, endDate, pageLocoNo, isLoading, error, pageData, view, pending, searches>>

-----------------------------------------------------------------------------
(* Strings *)

LowerLetters == <<"a","b","c","d","e","f","g","h","i","j","k","l","m",
                  "n","o","p","q","r","s","t","u","v","w","x","y","z">>
UpperLetters == <<"A","B","C","D","E","F","G","H","I","J","K","L","M",
                  "N","O","P","Q","R","S","T","U","V","W","X","Y","Z">>
Digits == <<"0","1","2","3","4","5","6","7","8","9">>

IsDigit(c) == \E i \in 1..10 : Digits[i] = c
DigitValue(c) == (CHOOSE i \in 1..10 : Digits[i] = c) - 1
IsLower(c) == \E i \in 1..26 : LowerLetters[i] = c
IsUpper(c) == \E i \in 1..26 : UpperLetters[i] = c
\* the characters \s matches and String.prototype.trim removes
IsSpace(c) == c \in {" ", "\t", "\n"}

UpperChar(c) == IF IsLower(c) THEN UpperLetters[CHOOSE i \in 1..26 : LowerLetters[i] = c] ELSE c
LowerChar(c) == IF IsUpper(c) THEN LowerLetters[CHOOSE i \in 1..26 : UpperLetters[i] = c] ELSE c

toUpperCase(s) == [i \in 1..Len(s) |-> UpperChar(s[i])]
toLowerCase(s) == [i \in 1..Len(s) |-> LowerChar(s[i])]

RECURSIVE TrimStart(_)
TrimStart(s) == IF s # <<>> /\ IsSpace(Head(s)) THEN TrimStart(Tail(s)) ELSE s

RECURSIVE TrimEnd(_)
TrimEnd(s) == IF s # <<>> /\ IsSpace(s[Len(s)]) THEN TrimEnd(SubSeq(s, 1, Len(s) - 1)) ELSE s

trim(s) == TrimEnd(TrimStart(s))

startsWith(s, p) == Len(p) <= Len(s) /\ SubSeq(s, 1, Len(p)) = p

includes(s, p) == \E i \in 0..(Len(s) - Len(p)) : SubSeq(s, i + 1, i + Len(p)) = p

\* the key as it would be if the label were not put in lower case
NormalizedKeepingCase(s) ==
    SelectSeq(SelectSeq(s, LAMBDA c : ~IsSpace(c)),
              LAMBDA c : IsLower(c) \/ IsUpper(c) \/ IsDigit(c))

\* s.replace(/\s/g, '').replace(/[^a-z0-9]/gi, '') after toLowerCase
normalizeLabel(s) ==
    SelectSeq(SelectSeq(toLowerCase(s), LAMBDA c : ~IsSpace(c)),
              LAMBDA c : IsLower(c) \/ IsUpper(c) \/ IsDigit(c))

\* a.localeCompare(b) < 0 or = 0, on the collation rank of the characters:
\* punctuation and space, then digits, then letters without regard to case
CharRank(c) ==
    IF IsDigit(c) THEN 10 + DigitValue(c)
    ELSE IF IsLower(c) THEN 20 + (CHOOSE i \in 1..26 : LowerLetters[i] = c)
    ELSE IF IsUpper(c) THEN 20 + (CHOOSE i \in 1..26 : UpperLetters[i] = c)
    ELSE 0

RECURSIVE localeLessEq(_, _)
localeLessEq(a, b) ==
    IF a = <<>> THEN TRUE
    ELSE IF b = <<>> THEN FALSE
    ELSE IF CharRank(Head(a)) < CharRank(Head(b)) THEN TRUE
    ELSE IF CharRank(Head(a)) > CharRank(Head(b)) THEN FALSE
    ELSE localeLessEq(Tail(a), Tail(b))

-----------------------------------------------------------------------------
(* Dates *)

Null == [null |-> TRUE]

\* dateString.split(/[-/]/)
RECURSIVE SplitFrom(_, _)
SplitFrom(s, cur) ==
    IF s = <<>> THEN <<cur>>
    ELSE IF Head(s) \in {"-", "/"} THEN <<cur>> \o SplitFrom(Tail(s), <<>>)
    ELSE SplitFrom(Tail(s), Append(cur, Head(s)))


\* parseInt(part, 10): leading white space is skipped, a sign is read, then the
\* digits up to the first character that is no digit; NaN when there are none
RECURSIVE DigitsValue(_, _)
DigitsValue(s, acc) ==
    IF s # <<>> /\ IsDigit(Head(s)) THEN DigitsValue(Tail(s), acc * 10 + DigitValue(Head(s)))
    ELSE acc

\* a JavaScript number: NaN, or the integer in value
NaN == [nan |-> TRUE, value |-> 0]
Num(n) == [nan |-> FALSE, value |-> n]
isNaN(v) == v.nan

\* the digits that follow the white space and the sign
LeadingDigits(u) ==
    IF u = <<>> \/ ~IsDigit(Head(u)) THEN NaN ELSE Num(DigitsValue(u, 0))

ParseIntTrimmed(t) ==
    IF t # <<>> /\ Head(t) = "-"
        THEN (IF LeadingDigits(Tail(t)).nan THEN NaN
              ELSE Num(0 - LeadingDigits(Tail(t)).value))
    ELSE IF t # <<>> /\ Head(t) = "+" THEN LeadingDigits(Tail(t))
    ELSE LeadingDigits(t)

parseInt(part) == ParseIntTrimmed(TrimStart(part))

DaysInMonth(y, m0) ==
    IF m0 = 1 THEN (IF (y % 4 = 0 /\ y % 100 # 0) \/ y % 400 = 0 THEN 29 ELSE 28)
    ELSE IF m0 \in {3, 5, 8, 10} THEN 30 ELSE 31

\* the calendar date that lies n days after the first day of month m0 of year y
RECURSIVE DateFrom(_, _, _)
DateFrom(y, m0, n) ==
    IF n < 0 THEN
        (IF m0 = 0 THEN DateFrom(y - 1, 11, n + 31)
         ELSE DateFrom(y, m0 - 1, n + DaysInMonth(y, m0 - 1)))
    ELSE IF n >= DaysInMonth(y, m0) THEN
        (IF m0 = 11 THEN DateFrom(y + 1, 0, n - 31)
         ELSE DateFrom(y, m0 + 1, n - DaysInMonth(y, m0)))
    ELSE [year |-> y, month |-> m0, date |-> n + 1]

\* new Date(Date.UTC(year, month, day)): a month outside 0..11 carries into
\* the year, a day outside the month carries into the months
DateUTC(year, month, day) ==
    DateFrom(year + (month \div 12), month % 12, day - 1)

\* the date as it would be if carried components were let through
CarriedDate(year, month, day, date) == date

\* the date, unless a component was carried over when it was built
ValidatedDate(year, month, day, date) ==
    IF date.year # year \/ date.month # month \/ date.date # day THEN Null ELSE date

\* if (year < 100) year += 2000
FullYear(year) == IF year < 100 THEN year + 2000 ELSE year

\* day, month and year as parseInt gave them; the month is NaN when its part is
DateOfNumbers(day, month, year) ==
    IF isNaN(day) \/ isNaN(month) \/ isNaN(year) THEN Null
    ELSE ValidatedDate(FullYear(year.value), month.value - 1, day.value,
                       DateUTC(FullYear(year.value), month.value - 1, day.value))

DateOfParts(parts) ==
    IF Len(parts) # 3 THEN Null
    ELSE DateOfNumbers(parseInt(parts[1]), parseInt(parts[2]), parseInt(parts[3]))

parseDateDDMMYY(dateString) ==
    IF dateString = <<>> THEN Null ELSE DateOfParts(SplitFrom(dateString, <<>>))

\* the last two characters of a number written in decimal
LastTwo(n) ==
    IF n < 10 THEN <<Digits[n + 1]>>
    ELSE <<Digits[((n \div 10) % 10) + 1], Digits[(n % 10) + 1]>>

\* a non-negative number written in decimal
RECURSIVE NumToString(_)
NumToString(n) ==
    IF n < 10 THEN <<Digits[n + 1]>>
    ELSE Append(NumToString(n \div 10), Digits[(n % 10) + 1])

\* the label as it would be if the financial year began in May
FinancialYearFromMay(date) ==
    IF date.month >= 4
    THEN NumToString(date.year) \o <<"-">> \o LastTwo(date.year + 1)
    ELSE NumToString(date.year - 1) \o <<"-">> \o LastTwo(date.year)

getFinancialYear(date) ==
    IF date.month >= 3
    THEN NumToString(date.year) \o <<"-">> \o LastTwo(date.year + 1)
    ELSE NumToString(date.year - 1) \o <<"-">> \o LastTwo(date.year)

FY_MONTH_ORDER == <<3, 4, 5, 6, 7, 8, 9, 10, 11, 0, 1, 2>>

\* FY_MONTH_ORDER.indexOf(month), counted from 1; 0 stands for -1
MonthIndexInFy(month) ==
    IF \E i \in 1..12 : FY_MONTH_ORDER[i] = month
    THEN CHOOSE i \in 1..12 : FY_MONTH_ORDER[i] = month
    ELSE 0

-----------------------------------------------------------------------------
(* WDG4 system classification *)

\* the entries in the order Object.entries lists them: <<key, name>>
WDG4_SYSTEM_MAP == <<
    <<<<"1"," ","P","P","K">>,
      <<"P","o","w","e","r"," ","P","a","c","k">>>>,
    <<<<"2"," ","R","a","d","i","a","t","o","r">>,
      <<"R","a","d","i","a","t","o","r">>>>,
    <<<<"3"," ","L","O","S">>,
      <<"L","u","b","e"," ","O","i","l"," ","S","y","s","t","e","m">>>>,
    <<<<"4"," ","F","O","S">>,
      <<"F","u","e","l"," ","O","i","l"," ","S","y","s","t","e","m">>>>,
    <<<<"5"," ","C","W","S">>,
      <<"C","o","o","l","i","n","g"," ","W","a","t","e","r"," ","S","y","s","t","e","m">>>>,
    <<<<"6"," ","T","S","C">>,
      <<"T","u","r","b","o"," ","S","u","p","e","r"," ","C","h","a","r","g","e","r">>>>,
    <<<<"7"," ","C","O","M">>,
      <<"C","o","m","p","r","e","s","s","o","r">>>>,
    <<<<"8"," ","U","N","T">>,
      <<"U","n","d","e","r"," ","T","r","u","c","k">>>>,
    <<<<"1","1"," ","A","B","K">>,
      <<"A","i","r"," ","B","r","a","k","e">>>>,
    <<<<"1","2"," ","G","O","V">>,
      <<"G","o","v","e","r","n","o","r">>>>,
    <<<<"1","4"," ","B","A","T">>,
      <<"B","a","t","t","e","r","y">>>>,
    <<<<"1","5"," ","T","M">>,
      <<"T","r","a","c","t","i","o","n"," ","M","o","t","o","r">>>>,
    <<<<"1","6"," ","T","A">>,
      <<"T","r","a","c","t","i","o","n"," ","A","l","t","e","r","n","a","t","o","r">>>>,
    <<<<"1","7"," ","W","i","r","e","s"," ","&"," ","C","a","b","l","e","s">>,
      <<"W","i","r","e","s"," ","&"," ","c","a","b","l","e","s">>>>,
    <<<<"1","8"," ","E","l","e","c","t","r","i","c"," ","C","o","n","t","r","o","l">>,
      <<"E","l","e","c","t","r","i","c"," ","c","o","n","t","r","o","l">>>>,
    <<<<"2","1"," ","A","X","E">>,
      <<"A","u","x","i","l","i","a","r","y"," ","M","o","t","o","r","s">>>>,
    <<<<"2","4"," ","O","T","H">>,
      <<"O","t","h","e","r","s">>>>
    >>

WDG4_MECHANICAL_SYSTEMS == {
    <<"P","o","w","e","r"," ","P","a","c","k">>,
    <<"R","a","d","i","a","t","o","r">>,
    <<"L","u","b","e"," ","O","i","l"," ","S","y","s","t","e","m">>,
    <<"F","u","e","l"," ","O","i","l"," ","S","y","s","t","e","m">>,
    <<"C","o","o","l","i","n","g"," ","W","a","t","e","r"," ","S","y","s","t","e","m">>,
    <<"T","u","r","b","o"," ","S","u","p","e","r"," ","C","h","a","r","g","e","r">>,
    <<"C","o","m","p","r","e","s","s","o","r">>,
    <<"U","n","d","e","r"," ","T","r","u","c","k">>,
    <<"A","i","r"," ","B","r","a","k","e">>,
    <<"G","o","v","e","r","n","o","r">>
    }

WDG4_ELECTRICAL_SYSTEMS == {
    <<"B","a","t","t","e","r","y">>,
    <<"T","r","a","c","t","i","o","n"," ","M","o","t","o","r">>,
    <<"T","r","a","c","t","i","o","n"," ","A","l","t","e","r","n","a","t","o","r">>,
    <<"W","i","r","e","s"," ","&"," ","c","a","b","l","e","s">>,
    <<"E","l","e","c","t","r","i","c"," ","c","o","n","t","r","o","l">>,
    <<"A","u","x","i","l","i","a","r","y"," ","M","o","t","o","r","s">>
    }

S_Uncategorized == <<"U","n","c","a","t","e","g","o","r","i","z","e","d">>
S_MESSAGE == <<"M","E","S","S","A","G","E">>
S_OTH == <<"O","T","H">>
S_Y_LOCO == <<"Y","-","L","O","C","O">>
S_Y_OTH == <<"Y","-","O","T","H">>
S_PUNC == <<"P","U","N","C">>

\* the value of a field the record does not have; no string, since every
\* element of a string is one character
Undefined == <<"undefined">>
\* a value JavaScript treats as false in a condition: undefined or ''
Falsy(v) == v = Undefined \/ v = <<>>

\* the group of a system name
SystemInfoOf(mappedName) ==
    IF mappedName \in WDG4_MECHANICAL_SYSTEMS
        THEN [name |-> mappedName, group |-> "Mechanical"]
    ELSE IF mappedName \in WDG4_ELECTRICAL_SYSTEMS
        THEN [name |-> mappedName, group |-> "Electrical"]
    ELSE [name |-> mappedName, group |-> "Others"]

\* Object.entries(WDG4_SYSTEM_MAP).find(([key]) => equipmentTrimmed.startsWith(key))?.[1]
FirstEntryOf(hits) ==
    IF hits = {} THEN Undefined
    ELSE WDG4_SYSTEM_MAP[CHOOSE i \in hits : \A j \in hits : i <= j][2]

MappedNameOf(equipmentTrimmed, found) ==
    IF Falsy(found) THEN equipmentTrimmed ELSE found

SystemInfoOfTrimmed(equipmentTrimmed) ==
    SystemInfoOf(MappedNameOf(equipmentTrimmed,
        FirstEntryOf({i \in 1..Len(WDG4_SYSTEM_MAP) :
                         startsWith(equipmentTrimmed, WDG4_SYSTEM_MAP[i][1])})))

getWdg4SystemInfo(equipment) ==
    IF Falsy(equipment) THEN [name |-> S_Uncategorized, group |-> "Others"]
    ELSE SystemInfoOfTrimmed(trim(equipment))

-----------------------------------------------------------------------------
(* Aggregation: FailuresSummary *)

(***************************************************************************)
(* A failure record is an object of the loaded list; a cell's items hold   *)
(* references to those objects, modelled as positions in allFailures.      *)
(***************************************************************************)
Obj(ref) == allFailures[ref]

EmptyCell == [count |-> 0, items |-> <<>>]
\* Array(12).fill(null).map(() => ({ count: 0, items: [] }))
EmptyMonths == [i \in 1..12 |-> EmptyCell]

\* cell.count++; cell.items.push(f)
AddToCell(cell, f) == [count |-> cell.count + 1, items |-> Append(cell.items, f)]

\* acc.count += month.count; acc.items.push(...month.items)
AccumulateCell(acc, month) ==
    [count |-> acc.count + month.count, items |-> acc.items \o month.items]

RECURSIVE ReduceCells(_, _, _)
ReduceCells(monthlyData, i, acc) ==
    IF i > Len(monthlyData) THEN acc
    ELSE ReduceCells(monthlyData, i + 1, AccumulateCell(acc, monthlyData[i]))

\* the reduce with its first month left out
ReduceTotalFromSecond(monthlyData) == ReduceCells(monthlyData, 2, EmptyCell)

\* monthlyData.reduce(..., { count: 0, items: [] })
ReduceTotal(monthlyData) == ReduceCells(monthlyData, 1, EmptyCell)

\* an argument of sumSummaryTotals that is null or undefined
NoTotals == [null |-> TRUE]

\* the counts added, the other cell's items left out
CombineCellsCountOnly(cell, otherCell) ==
    [count |-> cell.count + otherCell.count, items |-> cell.items]

\* the items joined, the other cell's count left out
CombineCellsFirstCount(cell, otherCell) ==
    [count |-> cell.count, items |-> cell.items \o otherCell.items]

\* { count: cell.count + otherCell.count, items: [...cell.items, ...otherCell.items] }
CombineCells(cell, otherCell) ==
    [count |-> cell.count + otherCell.count, items |-> cell.items \o otherCell.items]

\* otherCell is t2.monthlyData[i] || { count: 0, items: [] }
CombineTotals(t1, t2) ==
    [monthlyData |-> [i \in 1..Len(t1.monthlyData) |->
                        CombineCells(t1.monthlyData[i],
                                     IF i \in DOMAIN t2.monthlyData
                                     THEN t2.monthlyData[i] ELSE EmptyCell)],
     total |-> CombineCells(t1.total, t2.total)]

\* total1 || emptyTotal
OrEmptyTotal(total) ==
    IF total = NoTotals THEN [monthlyData |-> EmptyMonths, total |-> EmptyCell] ELSE total

sumSummaryTotals(total1, total2) ==
    CombineTotals(OrEmptyTotal(total1), OrEmptyTotal(total2))

\* the predicates the views hand to processSummary
OptUpper(v) == IF v = Undefined THEN Undefined ELSE toUpperCase(v)

FilterNames == {"A_main", "A_oth", "B_yLoco", "B_yOth", "C_main", "C_oth", "all", "punc"}

\* the predicates as they would be if section A took the messages as well
FilterFnMessagesInA(name, f) ==
    CASE name = "A_main" -> OptUpper(f.responsibility) # S_OTH
      [] name = "A_oth" -> OptUpper(f.responsibility) = S_OTH
      [] name = "B_yLoco" -> f.elocosaf # Undefined /\ includes(toUpperCase(f.elocosaf), S_Y_LOCO)
      [] name = "B_yOth" -> f.elocosaf # Undefined /\ includes(toUpperCase(f.elocosaf), S_Y_OTH)
      [] name = "C_main" -> OptUpper(f.icmsmessage) = S_MESSAGE /\ OptUpper(f.responsibility) # S_OTH
      [] name = "C_oth" -> OptUpper(f.icmsmessage) = S_MESSAGE /\ OptUpper(f.responsibility) = S_OTH
      [] name = "all" -> TRUE
      [] name = "punc" -> f.elocosaf # Undefined /\ includes(toUpperCase(f.elocosaf), S_PUNC)

FilterFn(name, f) ==
    CASE name = "A_main" -> OptUpper(f.icmsmessage) # S_MESSAGE /\ OptUpper(f.responsibility) # S_OTH
      [] name = "A_oth" -> OptUpper(f.icmsmessage) # S_MESSAGE /\ OptUpper(f.responsibility) = S_OTH
      [] name = "B_yLoco" -> f.elocosaf # Undefined /\ includes(toUpperCase(f.elocosaf), S_Y_LOCO)
      [] name = "B_yOth" -> f.elocosaf # Undefined /\ includes(toUpperCase(f.elocosaf), S_Y_OTH)
      [] name = "C_main" -> OptUpper(f.icmsmessage) = S_MESSAGE /\ OptUpper(f.responsibility) # S_OTH
      [] name = "C_oth" -> OptUpper(f.icmsmessage) = S_MESSAGE /\ OptUpper(f.responsibility) = S_OTH
      [] name = "all" -> TRUE
      [] name = "punc" -> f.elocosaf # Undefined /\ includes(toUpperCase(f.elocosaf), S_PUNC)

\* rowsMap: the Map's entries in insertion order

\* if (!rowsMap.has(groupName)) rowsMap.set(groupName, { monthlyData: twelve empty cells })
EnsureRow(rowsMap, groupName) ==
    IF \E i \in 1..Len(rowsMap) : rowsMap[i].name = groupName THEN rowsMap
    ELSE Append(rowsMap, [name |-> groupName, monthlyData |-> EmptyMonths])

\* rowsMap.get(groupName).monthlyData[monthIndexInFy]: count++, items.push(f)
CountInRow(rowsMap, groupName, idx, ref) ==
    LET r == (CHOOSE i \in 1..Len(rowsMap) : rowsMap[i].name = groupName)
    IN [rowsMap EXCEPT ![r].monthlyData[idx] = AddToCell(@, ref)]

\* the record counted one month slot late
CountInNextSlot(grandTotals, idx, ref) ==
    [grandTotals EXCEPT ![(idx % 12) + 1] = AddToCell(@, ref)]

\* grandTotals[monthIndexInFy]: count++, items.push(f)
CountInGrandTotals(grandTotals, idx, ref) ==
    [grandTotals EXCEPT ![idx] = AddToCell(@, ref)]

\* f[groupByKey] || 'Uncategorized'
GroupNameOf(f, groupByKey) ==
    IF Falsy(f[groupByKey]) THEN S_Uncategorized ELSE f[groupByKey]

\* f.datefailed || ''
DateFailedOf(f) == IF Falsy(f.datefailed) THEN <<>> ELSE f.datefailed

\* if (monthIndexInFy !== -1) { count the record in its row and in grandTotals }
CountFailure(rowsMap, grandTotals, groupName, monthIndexInFy, ref) ==
    IF monthIndexInFy # 0
    THEN [rowsMap |-> CountInRow(rowsMap, groupName, monthIndexInFy, ref),
          grandTotals |-> CountInGrandTotals(grandTotals, monthIndexInFy, ref)]
    ELSE [rowsMap |-> rowsMap, grandTotals |-> grandTotals]

\* if (!date) return; the row of the group is in the map by then
CountDated(rowsMap, grandTotals, groupName, date, ref) ==
    IF date = Null THEN [rowsMap |-> rowsMap, grandTotals |-> grandTotals]
    ELSE CountFailure(rowsMap, grandTotals, groupName, MonthIndexInFy(date.month), ref)

\* one turn of relevantFailures.forEach in processSummary
SummaryStep(acc, ref, groupByKey) ==
    CountDated(EnsureRow(acc.rowsMap, GroupNameOf(Obj(ref), groupByKey)),
               acc.grandTotals,
               GroupNameOf(Obj(ref), groupByKey),
               parseDateDDMMYY(DateFailedOf(Obj(ref))),
               ref)

RECURSIVE SummaryLoop(_, _, _)
SummaryLoop(refs, groupByKey, acc) ==
    IF refs = <<>> THEN acc
    ELSE SummaryLoop(Tail(refs), groupByKey, SummaryStep(acc, Head(refs), groupByKey))

\* rows.sort((a, b) => a.name.localeCompare(b.name)): a stable insertion sort
RECURSIVE InsertRow(_, _)
InsertRow(sorted, row) ==
    IF sorted = <<>> THEN <<row>>
    ELSE IF localeLessEq(Head(sorted).name, row.name) THEN <<Head(sorted)>> \o InsertRow(Tail(sorted), row)
    ELSE <<row>> \o sorted

RECURSIVE SortRows(_)
SortRows(rows) ==
    IF rows = <<>> THEN <<>>
    ELSE InsertRow(SortRows(SubSeq(rows, 1, Len(rows) - 1)), rows[Len(rows)])

\* Array.from(map.entries()).map(([name, data]) => ({ name, ...data, total })).sort(...)
createSummaryRows(rowsMap) ==
    SortRows([i \in 1..Len(rowsMap) |->
                [name |-> rowsMap[i].name,
                 monthlyData |-> rowsMap[i].monthlyData,
                 total |-> ReduceTotal(rowsMap[i].monthlyData)]])

\* processSummary(failures, fy, title, groupTitle, filterFn, groupByKey); the
\* title, the group title and the headers made from fy are display text
SummaryData(acc) ==
    [rows |-> createSummaryRows(acc.rowsMap),
     totals |-> [monthlyData |-> acc.grandTotals,
                 total |-> ReduceTotal(acc.grandTotals)]]

processSummary(fs, filterFn, groupByKey) ==
    SummaryData(SummaryLoop(SelectSeq(fs, LAMBDA ref : FilterFn(filterFn, Obj(ref))),
                            groupByKey,
                            [rowsMap |-> <<>>, grandTotals |-> EmptyMonths]))

\* if (monthIndexInFy !== -1) { count the record in the row of its system }
CountInSystem(currentMap, systemName, monthIndexInFy, ref) ==
    IF monthIndexInFy # 0 THEN CountInRow(currentMap, systemName, monthIndexInFy, ref)
    ELSE currentMap

\* if (!date) return
CountDatedInSystem(currentMap, systemName, date, ref) ==
    IF date = Null THEN currentMap
    ELSE CountInSystem(currentMap, systemName, MonthIndexInFy(date.month), ref)

GroupedStepOf(dataMaps, info, f, ref) ==
    [dataMaps EXCEPT ![info.group] =
        CountDatedInSystem(EnsureRow(@, info.name), info.name,
                           parseDateDDMMYY(DateFailedOf(f)), ref)]

\* one turn of failures.forEach in processWdg4GroupedSummary
GroupedStep(dataMaps, ref) ==
    GroupedStepOf(dataMaps,
                  getWdg4SystemInfo(IF Falsy(Obj(ref).equipment) THEN <<>> ELSE Obj(ref).equipment),
                  Obj(ref), ref)

RECURSIVE GroupedLoop(_, _)
GroupedLoop(refs, dataMaps) ==
    IF refs = <<>> THEN dataMaps
    ELSE GroupedLoop(Tail(refs), GroupedStep(dataMaps, Head(refs)))

\* rows.forEach(row => row.monthlyData.forEach((cell, i) => monthlyTotals[i] += cell))
RECURSIVE MonthlyTotalsOf(_, _)
MonthlyTotalsOf(rows, monthlyTotals) ==
    IF rows = <<>> THEN monthlyTotals
    ELSE MonthlyTotalsOf(Tail(rows),
            [i \in 1..12 |-> AccumulateCell(monthlyTotals[i], Head(rows).monthlyData[i])])

calculateTotals(rows) ==
    [monthlyData |-> MonthlyTotalsOf(rows, EmptyMonths),
     total |-> ReduceTotal(MonthlyTotalsOf(rows, EmptyMonths))]

GroupedSummaryData(mechanicalRows, electricalRows, othersRows, mechanicalTotals, electricalTotals, othersTotals) ==
    [groups |-> <<[name |-> "Mechanical", rows |-> mechanicalRows, totals |-> mechanicalTotals],
                  [name |-> "Electrical", rows |-> electricalRows, totals |-> electricalTotals]>>,
     others |-> othersRows,
     grandTotals |-> sumSummaryTotals(sumSummaryTotals(mechanicalTotals, electricalTotals),
                                      othersTotals)]

GroupedOfRows(mechanicalRows, electricalRows, othersRows) ==
    GroupedSummaryData(mechanicalRows, electricalRows, othersRows,
                       calculateTotals(mechanicalRows), calculateTotals(electricalRows),
                       calculateTotals(othersRows))

GroupedOfMaps(dataMaps) ==
    GroupedOfRows(createSummaryRows(dataMaps["Mechanical"]),
                  createSummaryRows(dataMaps["Electrical"]),
                  createSummaryRows(dataMaps["Others"]))

processWdg4GroupedSummary(fs) ==
    GroupedOfMaps(GroupedLoop(fs, [g \in {"Mechanical", "Electrical", "Others"} |-> <<>>]))

-----------------------------------------------------------------------------
(* The WAG7 summary view: processedData *)

AllRefs(n) == [i \in 1..n |-> i]

\* failuresByFy: the records with a date that parses, by financial year
HasDate(ref) == parseDateDDMMYY(DateFailedOf(Obj(ref))) # Null
FyOf(ref) == getFinancialYear(parseDateDDMMYY(DateFailedOf(Obj(ref))))

\* a section of two tables with their combined grand totals
GroupedOf(main, oth) ==
    [groups |-> <<[name |-> "Loco Account", rows |-> main.rows, totals |-> main.totals],
                  [name |-> "Others", rows |-> oth.rows, totals |-> oth.totals]>>,
     others |-> <<>>,
     grandTotals |-> sumSummaryTotals(main.totals, oth.totals)]

\* result[fy] of the WAG7 view
WAG7Summaries(fyFailures) ==
    [summaryA |-> GroupedOf(processSummary(fyFailures, "A_main", "equipment"),
                            processSummary(fyFailures, "A_oth", "equipment")),
     summaryB |-> GroupedOf(processSummary(fyFailures, "B_yLoco", "equipment"),
                            processSummary(fyFailures, "B_yOth", "equipment")),
     summaryC |-> GroupedOf(processSummary(fyFailures, "C_main", "equipment"),
                            processSummary(fyFailures, "C_oth", "equipment")),
     summaryD |-> processSummary(fyFailures, "all", "responsibility"),
     summaryE_punc |-> processSummary(fyFailures, "punc", "equipment")]

WAG7ProcessedData(filtered) ==
    [fy \in {FyOf(filtered[i]) : i \in {j \in 1..Len(filtered) : HasDate(filtered[j])}} |->
        WAG7Summaries(SelectSeq(filtered, LAMBDA ref : HasDate(ref) /\ FyOf(ref) = fy))]

-----------------------------------------------------------------------------
(* The aggregation functions applied to a loaded sheet *)

MaxRecords == 3

\* rows a failures sheet may hold
SampleRows == {
    [locono |-> <<"2","2","0","0","3">>,
     datefailed |-> <<"1","5","-","0","4","-","2","4">>,
     icmsmessage |-> <<"I","C","M","S">>,
     responsibility |-> <<"E","L","E">>,
     equipment |-> <<"T","M">>,
     elocosaf |-> <<"Y","-","L","O","C","O">>],
    [locono |-> <<"2","2","0","0","4">>,
     datefailed |-> <<"2","0","/","0","4","/","2","0","2","4">>,
     icmsmessage |-> <<"M","e","s","s","a","g","e">>,
     responsibility |-> <<"O","T","H">>,
     equipment |-> <<"1"," ","P","P","K">>,
     elocosaf |-> <<"Y","-","O","T","H"," ","P","U","N","C">>],
    [locono |-> <<"2","2","0","0","5">>,
     datefailed |-> <<"3","1","-","0","4","-","2","4">>,
     icmsmessage |-> <<"i","c","m","s">>,
     responsibility |-> <<"o","t","h">>,
     equipment |-> <<"1"," ","P","P","K">>,
     elocosaf |-> <<>>],
    [locono |-> <<"2","2","0","0","3">>,
     datefailed |-> <<"1","5","-","0","3","-","2","4">>,
     icmsmessage |-> <<"M","E","S","S","A","G","E">>,
     responsibility |-> <<"M","E","C","H">>,
     equipment |-> <<>>,
     elocosaf |-> <<"y","-","l","o","c","o","/","y","-","o","t","h">>],
    [locono |-> <<"2","2","0","0","6">>,
     datefailed |-> <<"1","0","-","0","6","-","2","4">>,
     icmsmessage |-> <<"I","C","M","S">>,
     responsibility |-> <<"O","T","H">>,
     equipment |-> <<"1","5"," ","T","M">>,
     elocosaf |-> <<"Y","-","L","O","C","O">>]
    }

GroupKeys == {"equipment", "responsibility"}

NoCall == [op |-> "none"]

\* the totals a named summary of the whole list has; "null" for no totals
TotalsNamed(a) ==
    IF a = "null" THEN NoTotals
    ELSE processSummary(AllRefs(Len(allFailures)), a, "equipment").totals

LoadRow(row) ==
    /\ lastCall = NoCall
    /\ Len(allFailures) < MaxRecords
    /\ allFailures' = Append(allFailures, row)
    /\ filteredFailures' = AllRefs(Len(allFailures) + 1)
    /\ UNCHANGED <<lastCall, lastResult, startDate, endDate>>
    /\ UNCHANGED <<qVars, editVars, appVars>>

CallProcessSummary(filterFn, groupByKey) ==
    /\ lastCall = NoCall
    /\ lastCall' = [op |-> "processSummary", filterFn |-> filterFn, groupByKey |-> groupByKey]
    /\ lastResult' = processSummary(AllRefs(Len(allFailures)), filterFn, groupByKey)
    /\ UNCHANGED allFailures
    /\ UNCHANGED <<qVars, editVars, viewVars, appVars>>

CallGroupedSummary ==
    /\ lastCall = NoCall
    /\ lastCall' = [op |-> "processWdg4GroupedSummary"]
    /\ lastResult' = processWdg4GroupedSummary(AllRefs(Len(allFailures)))
    /\ UNCHANGED allFailures
    /\ UNCHANGED <<qVars, editVars, viewVars, appVars>>

SumTotalsOf(total1, total2) ==
    /\ lastCall = NoCall
    /\ lastCall' = [op |-> "sumSummaryTotals", total1 |-> total1, total2 |-> total2]
    /\ lastResult' = sumSummaryTotals(total1, total2)
    /\ UNCHANGED allFailures
    /\ UNCHANGED <<qVars, editVars, viewVars, appVars>>

CallSumSummaryTotals(a, b) == SumTotalsOf(TotalsNamed(a), TotalsNamed(b))

\* processedData is computed anew when filteredFailures has changed
RenderWAG7 ==
    /\ lastCall.op # "WAG7SummaryView"
    /\ lastCall' = [op |-> "WAG7SummaryView"]
    /\ lastResult' = WAG7ProcessedData(filteredFailures)
    /\ UNCHANGED allFailures
    /\ UNCHANGED <<qVars, editVars, viewVars, appVars>>

SHEET_NAMES ==
    [Loco_list |-> "Loco_list",
     Loco_Schedules |-> "Loco_Schedules",
     Traction_failures |-> "Traction_failures",
     WAG7_Modifications |-> "WAG7_Modifications",
     G4_list |-> "G4_list",
     G4_Schedules |-> "G4_Schedules",
     G4_Failures |-> "G4_Failures"]

Sheets == {SHEET_NAMES[name] : name \in DOMAIN SHEET_NAMES}

NextSummary ==
    \/ \E row \in SampleRows : LoadRow(row)
    \/ \E f \in FilterNames, k \in GroupKeys : CallProcessSummary(f, k)
    \/ CallGroupedSummary
    \/ \E a, b \in FilterNames \cup {"null"} : CallSumSummaryTotals(a, b)
    \/ RenderWAG7

-----------------------------------------------------------------------------
(* Properties of the aggregation functions *)

RECURSIVE SumCountsFrom(_, _)
SumCountsFrom(monthlyData, i) ==
    IF i > Len(monthlyData) THEN 0
    ELSE monthlyData[i].count + SumCountsFrom(monthlyData, i + 1)

\* the sum of the counts of the cells of one row
SumCounts(monthlyData) == SumCountsFrom(monthlyData, 1)

\* the sum over the rows of their count in month slot m
RECURSIVE SumOfMonth(_, _)
SumOfMonth(rows, m) ==
    IF rows = <<>> THEN 0
    ELSE Head(rows).monthlyData[m].count + SumOfMonth(Tail(rows), m)

CellsOfTotals(t) == {t.monthlyData[i] : i \in 1..Len(t.monthlyData)} \cup {t.total}
CellsOfRows(rows) == UNION {CellsOfTotals(rows[i]) : i \in 1..Len(rows)}
CellsOfSummary(table) == CellsOfRows(table.rows) \cup CellsOfTotals(table.totals)
AllRowsOf(grouped) == grouped.groups[1].rows \o grouped.groups[2].rows \o grouped.others
CellsOfGrouped(grouped) ==
    CellsOfRows(AllRowsOf(grouped)) \cup CellsOfTotals(grouped.groups[1].totals)
        \cup CellsOfTotals(grouped.groups[2].totals) \cup CellsOfTotals(grouped.grandTotals)
CellsOfYear(year) ==
    CellsOfGrouped(year.summaryA) \cup CellsOfGrouped(year.summaryB)
        \cup CellsOfGrouped(year.summaryC) \cup CellsOfSummary(year.summaryD)
        \cup CellsOfSummary(year.summaryE_punc)

RowTotalsAddUp(table) ==
    /\ \A i \in 1..Len(table.rows) :
          table.rows[i].total.count = SumCounts(table.rows[i].monthlyData)
    /\ table.totals.total.count = SumCounts(table.totals.monthlyData)

\* C1: in every table processSummary returns, each row's total count is the sum
\* of the row's twelve monthly counts, and so is the grand-total row's.
C1_RowTotalIsSumOfMonths ==
    lastCall.op = "processSummary" => RowTotalsAddUp(lastResult)

\* a table with a row that has records in two different months
C1_Witness ==
    /\ lastCall.op = "processSummary"
    /\ \E i \in 1..Len(lastResult.rows) : \E m, n \in 1..12 :
          /\ m < n
          /\ lastResult.rows[i].monthlyData[m].count > 0
          /\ lastResult.rows[i].monthlyData[n].count > 0
          /\ lastResult.rows[i].total.count >= 2

\* C2: in every table of processSummary and every grouped table of
\* processWdg4GroupedSummary, the grand total of month slot i is the sum over
\* all rows, of all groups, of their count in slot i.
C2_GrandTotalIsSumOfRows ==
    /\ lastCall.op = "processSummary" =>
          \A m \in 1..12 :
              lastResult.totals.monthlyData[m].count = SumOfMonth(lastResult.rows, m)
    /\ lastCall.op = "processWdg4GroupedSummary" =>
          \A m \in 1..12 :
              lastResult.grandTotals.monthlyData[m].count = SumOfMonth(AllRowsOf(lastResult), m)

\* a table with two rows that both count a record in the same month
C2_Witness ==
    /\ lastCall.op = "processSummary"
    /\ \E i, j \in 1..Len(lastResult.rows) : \E m \in 1..12 :
          /\ i # j
          /\ lastResult.rows[i].monthlyData[m].count > 0
          /\ lastResult.rows[j].monthlyData[m].count > 0

CellWellFormed(cell) == cell.count = Len(cell.items)

\* C3: every cell produced has a count equal to the length of its item list:
\* the cells of processSummary, of processWdg4GroupedSummary, of the WAG7 view's
\* sections, and the cells sumSummaryTotals makes of two totals.
C3_CountIsLengthOfItems ==
    /\ lastCall.op = "processSummary" =>
          \A c \in CellsOfSummary(lastResult) : CellWellFormed(c)
    /\ lastCall.op = "processWdg4GroupedSummary" =>
          \A c \in CellsOfGrouped(lastResult) : CellWellFormed(c)
    /\ lastCall.op = "sumSummaryTotals" =>
          \A c \in CellsOfTotals(lastResult) : CellWellFormed(c)
    /\ lastCall.op = "WAG7SummaryView" =>
          \A fy \in DOMAIN lastResult : \A c \in CellsOfYear(lastResult[fy]) : CellWellFormed(c)

\* a merge of two totals that both count records in one month
C3_Witness ==
    /\ lastCall.op = "sumSummaryTotals"
    /\ lastCall.total1 # NoTotals
    /\ lastCall.total2 # NoTotals
    /\ \E m \in 1..12 :
          /\ lastCall.total1.monthlyData[m].count > 0
          /\ lastCall.total2.monthlyData[m].count > 0
          /\ lastResult.monthlyData[m].count
                = lastCall.total1.monthlyData[m].count + lastCall.total2.monthlyData[m].count
          /\ Len(lastResult.monthlyData[m].items) >= 2

\* how often x occurs in the list
Occurrences(items, x) == Cardinality({i \in 1..Len(items) : items[i] = x})

\* the same count and the same members, each as often, in whatever order
SameMembers(c1, c2) ==
    /\ c1.count = c2.count
    /\ Len(c1.items) = Len(c2.items)
    /\ \A i \in 1..Len(c1.items) :
          Occurrences(c1.items, c1.items[i]) = Occurrences(c2.items, c1.items[i])

\* C4 as claimed: sumSummaryTotals(A, B) and sumSummaryTotals(B, A) have the
\* same count and the same ordered item list in each monthly cell and in the
\* total cell.
C4_Claimed_OrderedCommutative ==
    lastCall.op = "sumSummaryTotals" =>
        lastResult = sumSummaryTotals(lastCall.total2, lastCall.total1)

CommutesUpToOrder(ab, ba) ==
    /\ \A m \in 1..12 : SameMembers(ab.monthlyData[m], ba.monthlyData[m])
    /\ SameMembers(ab.total, ba.total)

\* C4 as amended: sumSummaryTotals(A, B) and sumSummaryTotals(B, A) have, cell
\* by cell, the same count and the same members with the same multiplicity;
\* the order of the members is that of the operands.
C4_CommutativeUpToOrder ==
    lastCall.op = "sumSummaryTotals" =>
        CommutesUpToOrder(lastResult, sumSummaryTotals(lastCall.total2, lastCall.total1))

\* a merge of two totals that count different records in one month
C4_Witness ==
    /\ lastCall.op = "sumSummaryTotals"
    /\ lastCall.total1 # NoTotals
    /\ lastCall.total2 # NoTotals
    /\ \E m \in 1..12 :
          /\ lastCall.total1.monthlyData[m].count > 0
          /\ lastCall.total2.monthlyData[m].count > 0
          /\ lastCall.total1.monthlyData[m].items # lastCall.total2.monthlyData[m].items
          /\ lastResult.monthlyData[m].items
                = lastCall.total1.monthlyData[m].items \o lastCall.total2.monthlyData[m].items

ItemSet(cell) == {cell.items[i] : i \in 1..Len(cell.items)}

\* the two tables of a section count no record twice
SectionDisjoint(section) ==
    /\ ItemSet(section.groups[1].totals.total) \cap ItemSet(section.groups[2].totals.total) = {}
    /\ section.grandTotals.total.count
          = Cardinality(ItemSet(section.groups[1].totals.total)
                            \cup ItemSet(section.groups[2].totals.total))

\* C5: in every financial year of the WAG7 view, the "Loco Account" and
\* "Others" tables of sections A, B and C hold disjoint sets of records, and
\* the combined grand total is the number of distinct records in either.
C5_Claimed_SectionsDisjoint ==
    lastCall.op = "WAG7SummaryView" =>
        \A fy \in DOMAIN lastResult :
            /\ SectionDisjoint(lastResult[fy].summaryA)
            /\ SectionDisjoint(lastResult[fy].summaryB)
            /\ SectionDisjoint(lastResult[fy].summaryC)

-----------------------------------------------------------------------------
(* Records of a sheet: objects whose keys keep the order of the columns *)

\* An object is the sequence of its <<key, value>> properties in the order
\* Object.keys lists them (insertion order: no alias of the loco number is an
\* array index, so the aliases keep the order of their columns).
ObjectKeys(obj) == [i \in 1..Len(obj) |-> obj[i][1]]
HasKey(obj, key) == \E i \in 1..Len(obj) : obj[i][1] = key
\* obj[key]
Get(obj, key) ==
    IF HasKey(obj, key) THEN obj[CHOOSE i \in 1..Len(obj) : obj[i][1] = key][2]
    ELSE Undefined
\* obj[key] = value
SetProp(obj, key, value) ==
    IF HasKey(obj, key)
    THEN [i \in 1..Len(obj) |-> IF obj[i][1] = key THEN <<key, value>> ELSE obj[i]]
    ELSE Append(obj, <<key, value>>)

-----------------------------------------------------------------------------
(* parseGvizData *)

\* String(v) of the JSON value of a cell that is neither null nor undefined:
\* a number [type |-> "number", num |-> n], a string [type |-> "string",
\* str |-> s] or a boolean [type |-> "boolean", bool |-> b]
String(v) ==
    IF v.type = "number"
        THEN (IF v.num < 0 THEN <<"-">> \o NumToString(0 - v.num) ELSE NumToString(v.num))
    ELSE IF v.type = "boolean" THEN (IF v.bool THEN <<"t","r","u","e">> ELSE <<"f","a","l","s","e">>)
    ELSE v.str

\* what a function hands back: a value, or the error it threw
Returned(value) == [threw |-> FALSE, value |-> value]
Threw == [threw |-> TRUE]

\* the key of one column: '' for a column without a label
ColName(col, normalizeKeys) ==
    IF col = Null \/ "label" \notin DOMAIN col THEN <<>>
    ELSE IF col.label = <<>> THEN <<>>
    ELSE IF normalizeKeys THEN normalizeLabel(col.label)
    ELSE col.label

\* the string as it would be if the raw value were tested for truthiness
CellValueOfTruthy(cell) ==
    IF cell = Null THEN <<>>
    ELSE IF "f" \in DOMAIN cell /\ cell.f # <<>> THEN cell.f
    ELSE IF "v" \in DOMAIN cell /\ cell.v # Null
            /\ cell.v # [type |-> "number", num |-> 0]
            /\ cell.v # [type |-> "boolean", bool |-> FALSE] THEN String(cell.v)
    ELSE <<>>

\* the string stored for a cell that is null or an object
CellValue(cell) ==
    IF cell = Null THEN <<>>
    ELSE IF "f" \in DOMAIN cell /\ cell.f # <<>> THEN cell.f
    ELSE IF "v" \in DOMAIN cell /\ cell.v # Null THEN String(cell.v)
    ELSE <<>>

\* cols.forEach over the columns from index on
RECURSIVE RowFrom(_, _, _, _)
RowFrom(cols, c, index, newRow) ==
    IF index > Len(cols) THEN newRow
    ELSE IF cols[index] = <<>> THEN RowFrom(cols, c, index + 1, newRow)
    ELSE RowFrom(cols, c, index + 1, SetProp(newRow, cols[index], CellValue(c[index])))

\* row.c[index] is undefined for a named column beyond the row's cells, and
\* reading cell.f of undefined throws a TypeError
RowThrows(cols, c) == \E index \in 1..Len(cols) : cols[index] # <<>> /\ index > Len(c)

RowsOf(cols, rows) ==
    IF \E r \in 1..Len(rows) : RowThrows(cols, rows[r].c) THEN Threw
    ELSE Returned([r \in 1..Len(rows) |-> RowFrom(cols, rows[r].c, 1, <<>>)])

TableMissing(json) ==
    \/ "table" \notin DOMAIN json
    \/ "cols" \notin DOMAIN json.table
    \/ "rows" \notin DOMAIN json.table

\* the rows as they would be if the status of the payload were not looked at
ParsedRowsIgnoringStatus(json, normalizeKeys) ==
    IF TableMissing(json) THEN Returned(<<>>)
    ELSE RowsOf([i \in 1..Len(json.table.cols) |-> ColName(json.table.cols[i], normalizeKeys)], json.table.rows)

\* the part of parseGvizData after JSON.parse
ParsedRows(json, normalizeKeys) ==
    IF "status" \in DOMAIN json /\ json.status = "error" THEN Threw
    ELSE IF TableMissing(json) THEN Returned(<<>>)
    ELSE RowsOf([i \in 1..Len(json.table.cols) |-> ColName(json.table.cols[i], normalizeKeys)],
                json.table.rows)

\* The response text is the pair of what indexOf(prefix) and JSON.parse see
\* in it: whether the callback prefix is there, and the JSON value of the
\* part inside the wrapper (json is absent when that part is no JSON).
parseGvizData(text, normalizeKeys) ==
    IF ~text.prefix THEN Threw
    ELSE IF "json" \notin DOMAIN text THEN Threw
    ELSE ParsedRows(text.json, normalizeKeys)

-----------------------------------------------------------------------------
(* The key of the loco number in a record *)

S_loco == <<"l","o","c","o">>
S_locono == <<"l","o","c","o","n","o">>
S_loconumber == <<"l","o","c","o","n","u","m","b","e","r">>
S_undefined == <<"u","n","d","e","f","i","n","e","d">>

\* the keys of obj from position i on, up to the first one that normalizes
\* to an alias of the loco number
RECURSIVE FirstLocoKeyFrom(_, _)
FirstLocoKeyFrom(objectKeys, i) ==
    IF i > Len(objectKeys) THEN Undefined
    ELSE IF normalizeLabel(objectKeys[i]) \in {S_loco, S_locono, S_loconumber}
        THEN objectKeys[i]
    ELSE FirstLocoKeyFrom(objectKeys, i + 1)

findLocoNumberKey(obj) == FirstLocoKeyFrom(ObjectKeys(obj), 1)

\* findNormalizedLocoNumberKey as it would be with 'loco' tried before 'loconumber'
LocoBeforeLoconumber(obj) ==
    IF HasKey(obj, S_locono) THEN S_locono
    ELSE IF HasKey(obj, S_loco) THEN S_loco
    ELSE IF HasKey(obj, S_loconumber) THEN S_loconumber
    ELSE Undefined

findNormalizedLocoNumberKey(obj) ==
    IF HasKey(obj, S_locono) THEN S_locono
    ELSE IF HasKey(obj, S_loconumber) THEN S_loconumber
    ELSE IF HasKey(obj, S_loco) THEN S_loco
    ELSE Undefined

\* list.length > 0 ? findLocoNumberKey(list[0]) : undefined
RawKeyOf(list) == IF Len(list) > 0 THEN findLocoNumberKey(list[1]) ELSE Undefined
\* list.length > 0 ? findNormalizedLocoNumberKey(list[0]) : undefined
NormalizedKeyOf(list) ==
    IF Len(list) > 0 THEN findNormalizedLocoNumberKey(list[1]) ELSE Undefined

\* raw.field || ''
OrEmpty(raw, field) == IF Falsy(Get(raw, field)) THEN <<>> ELSE Get(raw, field)

\* the record as it would be with system and componentfailed taken for each other
TransformSwappingSystem(raw) ==
    [datefailed |-> OrEmpty(raw, <<"d","a","t","e","o","f","f","a","i","l","u","r","e">>),
     locono |-> IF Falsy(findNormalizedLocoNumberKey(raw)) THEN <<>>
                ELSE OrEmpty(raw, findNormalizedLocoNumberKey(raw)),
     muwith |-> OrEmpty(raw, <<"m","u","w","i","t","h">>),
     icmsmessage |-> OrEmpty(raw, <<"m","e","s","s","a","g","e","i","c","m","s">>),
     div |-> OrEmpty(raw, <<"f","a","i","l","e","d","d","i","v","n">>),
     rly |-> OrEmpty(raw, <<"f","a","i","l","e","d","r","l","y">>),
     briefmessage |-> OrEmpty(raw, <<"b","r","i","e","f","c","a","u","s","e">>),
     causeoffailure |-> OrEmpty(raw, <<"s","h","e","d","i","n","v","e","s","t","i","g","a","t","i","o","n">>),
     equipment |-> OrEmpty(raw, <<"c","o","m","p","o","n","e","n","t","f","a","i","l","e","d">>),
     component |-> OrEmpty(raw, <<"s","y","s","t","e","m">>),
     responsibility |-> OrEmpty(raw, <<"s","h","e","d","s","e","c","t","i","o","n">>),
     elocosaf |-> <<>>,
     icms |-> OrEmpty(raw, <<"i","c","m","s">>),
     documentlink |-> OrEmpty(raw, <<"d","o","c","u","m","e","n","t","l","i","n","k">>),
     medialink |-> OrEmpty(raw, <<"m","e","d","i","a","l","i","n","k">>),
     trainno |-> OrEmpty(raw, <<"t","r","a","i","n","n","o">>),
     load |-> OrEmpty(raw, <<"l","o","a","d">>),
     station |-> OrEmpty(raw, <<"s","t","a","t","i","o","n">>),
     schparticulars |-> OrEmpty(raw, <<"s","c","h","p","a","r","t","i","c","u","l","a","r","s">>)]

transformWDG4Failure(raw) ==
    [datefailed |-> OrEmpty(raw, <<"d","a","t","e","o","f","f","a","i","l","u","r","e">>),
     locono |-> IF Falsy(findNormalizedLocoNumberKey(raw)) THEN <<>>
                ELSE OrEmpty(raw, findNormalizedLocoNumberKey(raw)),
     muwith |-> OrEmpty(raw, <<"m","u","w","i","t","h">>),
     icmsmessage |-> OrEmpty(raw, <<"m","e","s","s","a","g","e","i","c","m","s">>),
     div |-> OrEmpty(raw, <<"f","a","i","l","e","d","d","i","v","n">>),
     rly |-> OrEmpty(raw, <<"f","a","i","l","e","d","r","l","y">>),
     briefmessage |-> OrEmpty(raw, <<"b","r","i","e","f","c","a","u","s","e">>),
     causeoffailure |-> OrEmpty(raw, <<"s","h","e","d","i","n","v","e","s","t","i","g","a","t","i","o","n">>),
     equipment |-> OrEmpty(raw, <<"s","y","s","t","e","m">>),
     component |-> OrEmpty(raw, <<"c","o","m","p","o","n","e","n","t","f","a","i","l","e","d">>),
     responsibility |-> OrEmpty(raw, <<"s","h","e","d","s","e","c","t","i","o","n">>),
     elocosaf |-> <<>>,
     icms |-> OrEmpty(raw, <<"i","c","m","s">>),
     documentlink |-> OrEmpty(raw, <<"d","o","c","u","m","e","n","t","l","i","n","k">>),
     medialink |-> OrEmpty(raw, <<"m","e","d","i","a","l","i","n","k">>),
     trainno |-> OrEmpty(raw, <<"t","r","a","i","n","n","o">>),
     load |-> OrEmpty(raw, <<"l","o","a","d">>),
     station |-> OrEmpty(raw, <<"s","t","a","t","i","o","n">>),
     schparticulars |-> OrEmpty(raw, <<"s","c","h","p","a","r","t","i","c","u","l","a","r","s">>)]

-----------------------------------------------------------------------------
(* getLocoData: the joins *)

\* String(d[key])?.toUpperCase() === normalizedLocoNo
MatchesLoco(d, key, normalizedLocoNo) ==
    toUpperCase(IF Get(d, key) = Undefined THEN S_undefined ELSE Get(d, key)) = normalizedLocoNo

\* a reference to an object, for a variable that holds an object or null
Ref(obj) == [object |-> obj]

\* FindByLoco as it would be if it took the first row of the list
FindFirstRow(list, key, normalizedLocoNo) ==
    IF Falsy(key) \/ list = <<>> THEN Null ELSE Ref(list[1])

\* key ? list.find(d => ...) : nothing, null standing for no row found
FindByLoco(list, key, normalizedLocoNo) ==
    IF Falsy(key) THEN Null
    ELSE IF \E i \in 1..Len(list) : MatchesLoco(list[i], key, normalizedLocoNo)
        THEN Ref(list[CHOOSE i \in 1..Len(list) :
                    /\ MatchesLoco(list[i], key, normalizedLocoNo)
                    /\ \A j \in 1..(i - 1) : ~MatchesLoco(list[j], key, normalizedLocoNo)])
    ELSE Null

\* key ? list.filter(d => ...) : []
FilterByLoco(list, key, normalizedLocoNo) ==
    IF Falsy(key) THEN <<>>
    ELSE SelectSeq(list, LAMBDA d : MatchesLoco(d, key, normalizedLocoNo))

\* locoType after the two look-ups in the master lists
LocoTypeOf(wag7Details, wdg4Details) ==
    IF wag7Details # Null THEN "WAG7"
    ELSE IF wdg4Details # Null THEN "WDG4"
    ELSE "null"

NotFoundResult ==
    [details |-> Null, schedules |-> <<>>, failures |-> <<>>,
     wag7Modifications |-> <<>>, locoType |-> "null"]


-----------------------------------------------------------------------------
(* getLocoData and fetchSheet: the steps of one query *)

\* the argument normalizeKeys of the fetchSheet calls of getLocoData
NormalizeKeysOf(sheet) ==
    sheet \in {SHEET_NAMES.Loco_Schedules, SHEET_NAMES.Traction_failures,
               SHEET_NAMES.G4_Schedules, SHEET_NAMES.G4_Failures}

\* the sheets each Promise.all of getLocoData waits for
MasterLists == {SHEET_NAMES.Loco_list, SHEET_NAMES.G4_list}
Wag7Sheets == {SHEET_NAMES.Loco_Schedules, SHEET_NAMES.Traction_failures,
               SHEET_NAMES.WAG7_Modifications}
Wdg4Sheets == {SHEET_NAMES.G4_Schedules, SHEET_NAMES.G4_Failures}

DependentSheets(type) ==
    IF type = "WAG7" THEN Wag7Sheets
    ELSE IF type = "WDG4" THEN Wdg4Sheets
    ELSE {}

\* the sheets the await of the query is waiting for
Awaited(at) ==
    IF at = "lists" THEN MasterLists
    ELSE IF at = "WAG7" THEN Wag7Sheets
    ELSE IF at = "WDG4" THEN Wdg4Sheets
    ELSE {}

\* Promise.allSettled in the place of Promise.all: it waits for every retrieval and
\* takes a failed one as finished
PromiseAllSettled(states, sheets) ==
    IF \A s \in sheets : states[s] \in {"ok", "failed"} THEN "fulfilled" ELSE "pending"

\* Promise.all: rejected as soon as one promise rejects, fulfilled when every
\* promise has fulfilled
PromiseAll(states, sheets) ==
    IF \E s \in sheets : states[s] = "failed" THEN "rejected"
    ELSE IF \A s \in sheets : states[s] = "ok" THEN "fulfilled"
    ELSE "pending"

normalizedLocoNo == toUpperCase(trim(locoNo))

\* getLocoData up to its first await: both master lists are requested
StartQuery(query) ==
    /\ pc = "idle"
    /\ locoNo' = query
    /\ pc' = "lists"
    /\ issued' = issued \cup MasterLists
    /\ fetchState' = [s \in Sheets |-> IF s \in MasterLists THEN "pending" ELSE fetchState[s]]
    /\ UNCHANGED <<fetched, keys, details, locoType, result, sumVars, editVars, viewVars, appVars>>

\* the query throws what the Promise.all it waits for rejected with
Reject(states) ==
    /\ pc' = "rejected"
    /\ fetchState' = states
    /\ UNCHANGED <<locoNo, fetched, issued, keys, details, locoType, result, sumVars, editVars, viewVars, appVars>>

\* a retrieval settles while the query waits for others, or after it ended
StillWaiting(states, lists) ==
    /\ fetchState' = states
    /\ fetched' = lists
    /\ UNCHANGED <<locoNo, pc, issued, keys, details, locoType, result, sumVars, editVars, viewVars, appVars>>

\* getLocoData from the look-ups in the master lists to its return or to the
\* second Promise.all
ListsDecided(states, lists, wag7LocoNoKey, wdg4LocoNoKey, wag7Details, wdg4Details) ==
    /\ fetched' = lists
    /\ keys' = [keys EXCEPT ![SHEET_NAMES.Loco_list] = wag7LocoNoKey,
                            ![SHEET_NAMES.G4_list] = wdg4LocoNoKey]
    /\ details' = IF wag7Details # Null THEN wag7Details ELSE wdg4Details
    /\ locoType' = LocoTypeOf(wag7Details, wdg4Details)
    /\ IF LocoTypeOf(wag7Details, wdg4Details) = "null"
       THEN /\ pc' = "resolved"
            /\ result' = NotFoundResult
            /\ issued' = issued
            /\ fetchState' = states
       ELSE /\ pc' = LocoTypeOf(wag7Details, wdg4Details)
            /\ result' = result
            /\ issued' = issued \cup DependentSheets(LocoTypeOf(wag7Details, wdg4Details))
            /\ fetchState' =
                  [s \in Sheets |->
                      IF s \in DependentSheets(LocoTypeOf(wag7Details, wdg4Details))
                      THEN "pending" ELSE states[s]]
    /\ UNCHANGED <<locoNo, sumVars, editVars, viewVars, appVars>>

ListsKeyed(states, lists, wag7LocoNoKey, wdg4LocoNoKey) ==
    ListsDecided(states, lists, wag7LocoNoKey, wdg4LocoNoKey,
                 FindByLoco(lists[SHEET_NAMES.Loco_list], wag7LocoNoKey, normalizedLocoNo),
                 FindByLoco(lists[SHEET_NAMES.G4_list], wdg4LocoNoKey, normalizedLocoNo))

ListsDone(states, lists) ==
    ListsKeyed(states, lists, RawKeyOf(lists[SHEET_NAMES.Loco_list]),
               RawKeyOf(lists[SHEET_NAMES.G4_list]))

\* the return of the WAG7 branch
Wag7Keyed(states, lists, scheduleLocoKey, failureLocoKey, locoNoKeyMods) ==
    /\ fetchState' = states
    /\ fetched' = lists
    /\ keys' = [keys EXCEPT ![SHEET_NAMES.Loco_Schedules] = scheduleLocoKey,
                            ![SHEET_NAMES.Traction_failures] = failureLocoKey,
                            ![SHEET_NAMES.WAG7_Modifications] = locoNoKeyMods]
    /\ result' =
          [details |-> details,
           schedules |-> FilterByLoco(lists[SHEET_NAMES.Loco_Schedules],
                                      scheduleLocoKey, normalizedLocoNo),
           failures |-> FilterByLoco(lists[SHEET_NAMES.Traction_failures],
                                     failureLocoKey, normalizedLocoNo),
           wag7Modifications |-> FilterByLoco(lists[SHEET_NAMES.WAG7_Modifications],
                                              locoNoKeyMods, normalizedLocoNo),
           locoType |-> locoType]
    /\ pc' = "resolved"
    /\ UNCHANGED <<locoNo, issued, details, locoType, sumVars, editVars, viewVars, appVars>>

Wag7Done(states, lists) ==
    Wag7Keyed(states, lists,
              NormalizedKeyOf(lists[SHEET_NAMES.Loco_Schedules]),
              NormalizedKeyOf(lists[SHEET_NAMES.Traction_failures]),
              RawKeyOf(lists[SHEET_NAMES.WAG7_Modifications]))

\* the return of the WDG4 branch
Wdg4Keyed(states, lists, scheduleLocoKey, failureLocoKey) ==
    /\ fetchState' = states
    /\ fetched' = lists
    /\ keys' = [keys EXCEPT ![SHEET_NAMES.G4_Schedules] = scheduleLocoKey,
                            ![SHEET_NAMES.G4_Failures] = failureLocoKey]
    /\ result' =
          [details |-> details,
           schedules |-> FilterByLoco(lists[SHEET_NAMES.G4_Schedules],
                                      scheduleLocoKey, normalizedLocoNo),
           failures |-> [i \in 1..Len(FilterByLoco(lists[SHEET_NAMES.G4_Failures],
                                                    failureLocoKey, normalizedLocoNo)) |->
                            transformWDG4Failure(
                                FilterByLoco(lists[SHEET_NAMES.G4_Failures],
                                             failureLocoKey, normalizedLocoNo)[i])],
           wag7Modifications |-> <<>>,
           locoType |-> locoType]
    /\ pc' = "resolved"
    /\ UNCHANGED <<locoNo, issued, details, locoType, sumVars, editVars, viewVars, appVars>>

Wdg4Done(states, lists) ==
    Wdg4Keyed(states, lists,
              NormalizedKeyOf(lists[SHEET_NAMES.G4_Schedules]),
              NormalizedKeyOf(lists[SHEET_NAMES.G4_Failures]))

\* what the query does once one of its retrievals has settled
Settle(states, lists) ==
    IF Awaited(pc) = {} THEN StillWaiting(states, lists)
    ELSE IF PromiseAll(states, Awaited(pc)) = "rejected" THEN Reject(states)
    ELSE IF PromiseAll(states, Awaited(pc)) = "pending" THEN StillWaiting(states, lists)
    ELSE IF pc = "lists" THEN ListsDone(states, lists)
    ELSE IF pc = "WAG7" THEN Wag7Done(states, lists)
    ELSE Wdg4Done(states, lists)

\* fetchSheet: await fetch(url) ends; the promise rejects on a network error,
\* and the function throws on a response that is not ok
ResponseArrives(sheet, outcome) ==
    /\ fetchState[sheet] = "pending"
    /\ Settle([fetchState EXCEPT ![sheet] = IF outcome = "ok" THEN "reading" ELSE "failed"],
              fetched)

BodyParsed(sheet, parsed) ==
    IF parsed.threw
    THEN Settle([fetchState EXCEPT ![sheet] = "failed"], fetched)
    ELSE Settle([fetchState EXCEPT ![sheet] = "ok"], [fetched EXCEPT ![sheet] = parsed.value])

\* fetchSheet: await response.text() ends and parseGvizData reads the text
BodyArrives(sheet, text) ==
    /\ fetchState[sheet] = "reading"
    /\ BodyParsed(sheet, parseGvizData(text, NormalizeKeysOf(sheet)))

-----------------------------------------------------------------------------
(* The responses of the spreadsheet service the query is run against *)

T_LocoNo == <<"L","o","c","o"," ","N","o",".">>
T_LOCO_NO == <<"L","O","C","O"," ","N","O">>
T_Loco == <<"L","o","c","o">>
T_LocoNumber == <<"L","o","c","o"," ","N","u","m","b","e","r">>
T_Shed == <<"S","h","e","d">>
T_Sch == <<"S","c","h">>
T_DateFailed == <<"D","a","t","e"," ","F","a","i","l","e","d">>
T_DateOfFailure == <<"D","a","t","e"," ","o","f"," ","F","a","i","l","u","r","e">>
T_System == <<"S","y","s","t","e","m">>
T_ModA == <<"M","o","d"," ","A">>
T_22003 == <<"2","2","0","0","3">>
T_22003_padded == <<" ","2","2","0","0","3"," ">>
T_22004 == <<"2","2","0","0","4">>
T_12a == <<"1","2","a">>
T_12A == <<"1","2","A">>
T_12A_padded == <<"1","2","A"," ">>
T_99 == <<"9","9">>
T_KZJ == <<"K","Z","J">>
T_IA == <<"I","A">>
T_IB == <<"I","B">>
T_IC == <<"I","C">>
T_5 == <<"5">>
T_Y == <<"Y">>
T_TM == <<"T","M">>
T_15_04_24 == <<"1","5","-","0","4","-","2","4">>
T_10_06_24 == <<"1","0","-","0","6","-","2","4">>

\* cells as the service writes them
NumberCell(n) == [v |-> [type |-> "number", num |-> n], f |-> NumToString(n)]
TextCell(s) == [v |-> [type |-> "string", str |-> s]]

\* a response text with the callback prefix and a table
TableText(labels, cells) ==
    [prefix |-> TRUE,
     json |-> [status |-> "ok",
               table |-> [cols |-> [i \in 1..Len(labels) |-> [label |-> labels[i]]],
                          rows |-> [r \in 1..Len(cells) |-> [c |-> cells[r]]]]]]

\* a page that is no callback at all (a sheet that is not shared), an error
\* reported in the payload, and a payload without a table
BrokenTexts ==
    {[prefix |-> FALSE],
     [prefix |-> TRUE, json |-> [status |-> "error"]],
     [prefix |-> TRUE, json |-> [status |-> "ok"]]}

\* the texts a sheet may answer with; the second table of WAG7_Modifications
\* has a row with fewer cells than columns
TextsOf(sheet) ==
    BrokenTexts \cup
    (IF sheet = SHEET_NAMES.Loco_list THEN
        {TableText(<<T_LocoNo, T_Shed>>,
                   <<<<NumberCell(22003), TextCell(T_KZJ)>>,
                     <<NumberCell(22004), TextCell(T_KZJ)>>>>),
         TableText(<<T_LocoNumber, T_Loco>>, <<<<TextCell(T_22003), TextCell(T_5)>>>>),
         TableText(<<T_Loco, T_LocoNumber>>, <<<<TextCell(T_22003), TextCell(T_5)>>>>),
         TableText(<<T_LocoNo>>, <<<<TextCell(T_22003_padded)>>>>)}
     ELSE IF sheet = SHEET_NAMES.G4_list THEN
        {TableText(<<T_LOCO_NO, T_Shed>>, <<<<TextCell(T_12A), TextCell(T_KZJ)>>>>)}
     ELSE IF sheet = SHEET_NAMES.Loco_Schedules THEN
        {TableText(<<T_LocoNo, T_Sch>>,
                   <<<<NumberCell(22003), TextCell(T_IA)>>,
                     <<TextCell(T_22003_padded), TextCell(T_IB)>>,
                     <<NumberCell(22004), TextCell(T_IC)>>>>),
         TableText(<<T_Loco, T_LocoNumber, T_Sch>>,
                   <<<<TextCell(T_5), TextCell(T_22003), TextCell(T_IA)>>,
                     <<TextCell(T_22003), TextCell(T_5), TextCell(T_IB)>>>>),
         TableText(<<T_LocoNumber, T_Loco, T_Sch>>,
                   <<<<TextCell(T_22003), TextCell(T_5), TextCell(T_IA)>>,
                     <<TextCell(T_5), TextCell(T_22003), TextCell(T_IB)>>>>)}
     ELSE IF sheet = SHEET_NAMES.Traction_failures THEN
        {TableText(<<T_LocoNo, T_DateFailed>>,
                   <<<<NumberCell(22003), TextCell(T_15_04_24)>>,
                     <<NumberCell(22004), TextCell(T_10_06_24)>>>>),
         TableText(<<T_DateFailed>>, <<<<TextCell(T_15_04_24)>>>>)}
     ELSE IF sheet = SHEET_NAMES.WAG7_Modifications THEN
        {TableText(<<T_LocoNo, T_ModA>>, <<<<NumberCell(22003), TextCell(T_Y)>>>>),
         TableText(<<T_LocoNo, T_ModA>>, <<<<NumberCell(22003)>>>>)}
     ELSE IF sheet = SHEET_NAMES.G4_Schedules THEN
        {TableText(<<T_LocoNo, T_Sch>>,
                   <<<<TextCell(T_12a), TextCell(T_IA)>>, <<TextCell(T_22004), TextCell(T_IB)>>>>)}
     ELSE
        {TableText(<<T_LocoNo, T_DateOfFailure, T_System>>,
                   <<<<TextCell(T_12A), TextCell(T_15_04_24), TextCell(T_TM)>>,
                     <<TextCell(T_12A_padded), TextCell(T_10_06_24), Null>>>>)})

Queries == {T_22003, T_22003_padded, T_12a, T_99}

NextQuery ==
    \/ \E query \in Queries : StartQuery(query)
    \/ \E sheet \in Sheets, outcome \in {"ok", "not ok", "network error"} :
          ResponseArrives(sheet, outcome)
    \/ \E sheet \in Sheets : \E text \in TextsOf(sheet) : BodyArrives(sheet, text)

-----------------------------------------------------------------------------
(* Properties of the loco query *)

\* the searched identifier as the joins compare it
SearchedId == toUpperCase(trim(locoNo))

\* the rows of a fetched sheet whose value under the detected key is the
\* searched identifier, letter case apart
RowsOfLoco(sheet) ==
    {i \in 1..Len(fetched[sheet]) :
        /\ keys[sheet] # Undefined
        /\ toUpperCase(Get(fetched[sheet][i], keys[sheet])) = SearchedId}

ListsAnswered == pc \in {"WAG7", "WDG4", "resolved"}

\* C7: when the searched identifier matches no row of the two master lists,
\* the query issues no retrieval of a schedules, failures or modifications
\* sheet, and it resolves with the not-found result: details null, locoType
\* null, and the three lists empty.
C7_NotFoundSkipsDependentTables ==
    (/\ ListsAnswered
     /\ RowsOfLoco(SHEET_NAMES.Loco_list) = {}
     /\ RowsOfLoco(SHEET_NAMES.G4_list) = {})
    => /\ pc = "resolved"
       /\ issued = MasterLists
       /\ \A s \in Sheets \ MasterLists : fetchState[s] = "idle"
       /\ result = NotFoundResult

\* a query that found both master lists with rows, none of them its loco
C7_Witness ==
    /\ pc = "resolved"
    /\ result = NotFoundResult
    /\ Len(fetched[SHEET_NAMES.Loco_list]) > 0
    /\ Len(fetched[SHEET_NAMES.G4_list]) > 0
    /\ keys[SHEET_NAMES.Loco_list] # Undefined
    /\ keys[SHEET_NAMES.G4_list] # Undefined
    /\ issued = MasterLists

\* C8: whatever the order in which the retrievals of a query settle, the query
\* resolves only when every retrieval it issued has succeeded, and as soon as
\* one of them has failed the query is rejected and has no result, whatever
\* the other retrievals have brought or bring later.
C8_AllOrNothing ==
    /\ pc = "resolved" => \A s \in issued : fetchState[s] = "ok"
    /\ pc = "resolved" <=> result # Null
    /\ (\E s \in issued : fetchState[s] = "failed") => pc = "rejected" /\ result = Null

\* one dependent sheet of a found loco has failed after another had arrived,
\* and a third is still on its way
C8_Witness ==
    /\ pc = "rejected"
    /\ locoType = "WAG7"
    /\ fetchState[SHEET_NAMES.Loco_Schedules] = "ok"
    /\ Len(fetched[SHEET_NAMES.Loco_Schedules]) > 0
    /\ fetchState[SHEET_NAMES.Traction_failures] = "failed"
    /\ fetchState[SHEET_NAMES.WAG7_Modifications] \in {"pending", "reading"}
    /\ result = Null

\* the sheets whose key column the query has looked up in a first record
KeyLookedUp(sheet) ==
    /\ Len(fetched[sheet]) > 0
    /\ \/ sheet \in MasterLists /\ ListsAnswered
       \/ sheet \in DependentSheets(locoType) /\ pc = "resolved"

\* the normalized labels of the columns of the first record of a sheet
LabelsOf(sheet) ==
    {normalizeLabel(fetched[sheet][1][i][1]) : i \in 1..Len(fetched[sheet][1])}

\* the alias the key chosen for a sheet stands for
ChosenAlias(sheet) ==
    IF keys[sheet] = Undefined THEN Undefined ELSE normalizeLabel(keys[sheet])

\* the first alias of a priority list that is among the labels
FirstPresent(aliases, labels) ==
    IF \E i \in 1..Len(aliases) : aliases[i] \in labels
    THEN aliases[CHOOSE i \in 1..Len(aliases) :
                    /\ aliases[i] \in labels
                    /\ \A j \in 1..(i - 1) : aliases[j] \notin labels]
    ELSE Undefined

\* C9 as claimed: the key chosen is the first present of locono, loco,
\* loconumber, whatever the order of the columns; a record with 'loco' and
\* 'loconumber' and no 'locono' gives 'loco'.
C9_Claimed_PriorityLoconoLocoLoconumber ==
    \A s \in Sheets :
        KeyLookedUp(s) =>
            ChosenAlias(s) = FirstPresent(<<S_locono, S_loco, S_loconumber>>, LabelsOf(s))

\* the first column, in the order of the sheet, whose label is an alias
FirstAliasColumn(record) ==
    IF \E i \in 1..Len(record) : normalizeLabel(record[i][1]) \in {S_locono, S_loco, S_loconumber}
    THEN record[CHOOSE i \in 1..Len(record) :
                    /\ normalizeLabel(record[i][1]) \in {S_locono, S_loco, S_loconumber}
                    /\ \A j \in 1..(i - 1) :
                          normalizeLabel(record[j][1]) \notin {S_locono, S_loco, S_loconumber}][1]
    ELSE Undefined

\* C9 as amended: in a record with normalized keys the key chosen is the first
\* present of locono, loconumber, loco, whatever the order of the columns (a
\* record with 'loco' and 'loconumber' and no 'locono' gives 'loconumber'); in
\* a record with raw labels it is the first column, in the order of the
\* sheet, whose normalized label is one of the three aliases.
C9_PriorityLoconoLoconumberLoco ==
    \A s \in Sheets :
        KeyLookedUp(s) =>
            IF NormalizeKeysOf(s)
            THEN keys[s] = FirstPresent(<<S_locono, S_loconumber, S_loco>>, LabelsOf(s))
            ELSE keys[s] = FirstAliasColumn(fetched[s][1])

\* a found loco whose schedules sheet has a 'loco' column before a
\* 'loconumber' column and whose master list has them the other way round
C9_Witness ==
    /\ pc = "resolved"
    /\ locoType = "WAG7"
    /\ Len(fetched[SHEET_NAMES.Loco_Schedules]) > 0
    /\ ObjectKeys(fetched[SHEET_NAMES.Loco_Schedules][1])[1] = S_loco
    /\ ObjectKeys(fetched[SHEET_NAMES.Loco_Schedules][1])[2] = S_loconumber
    /\ keys[SHEET_NAMES.Loco_Schedules] = S_loconumber
    /\ Len(result.schedules) = 1
    /\ normalizeLabel(ObjectKeys(fetched[SHEET_NAMES.Loco_list][1])[1]) = S_loconumber
    /\ normalizeLabel(ObjectKeys(fetched[SHEET_NAMES.Loco_list][1])[2]) = S_loco
    /\ normalizeLabel(keys[SHEET_NAMES.Loco_list]) = S_loconumber

\* the rows of a fetched sheet whose identifier equals the searched one after
\* trimming both and ignoring letter case
RowsEqualAfterTrim(sheet) ==
    IF keys[sheet] = Undefined THEN <<>>
    ELSE SelectSeq(fetched[sheet],
                   LAMBDA d : toUpperCase(trim(Get(d, keys[sheet]))) = toUpperCase(trim(locoNo)))

\* C10: from every sheet the query joins, exactly the records are returned
\* whose identifier equals the searched one after trimming surrounding
\* whitespace on both sides and ignoring letter case; a loco is found exactly
\* when a master list has such a record.
C10_Claimed_TrimmedOnBothSides ==
    pc = "resolved" =>
        /\ (result.details = Null) <=>
              (/\ RowsEqualAfterTrim(SHEET_NAMES.Loco_list) = <<>>
               /\ RowsEqualAfterTrim(SHEET_NAMES.G4_list) = <<>>)
        /\ result.locoType = "WAG7" =>
              /\ result.schedules = RowsEqualAfterTrim(SHEET_NAMES.Loco_Schedules)
              /\ result.failures = RowsEqualAfterTrim(SHEET_NAMES.Traction_failures)
              /\ result.wag7Modifications = RowsEqualAfterTrim(SHEET_NAMES.WAG7_Modifications)
        /\ result.locoType = "WDG4" =>
              /\ result.schedules = RowsEqualAfterTrim(SHEET_NAMES.G4_Schedules)
              /\ Len(result.failures) = Len(RowsEqualAfterTrim(SHEET_NAMES.G4_Failures))

-----------------------------------------------------------------------------
(* Calls of the parsing functions on their own *)

T_CauseOfFailure == <<"C","a","u","s","e"," ","o","f"," ","F","a","i","l","u","r","e">>
T_TractionMotorFault == <<"T","r","a","c","t","i","o","n"," ","m","o","t","o","r"," ","f","a","u","l","t">>
T_abc == <<"a","b","c">>
T_LOCO_No == <<"L","O","C","O"," ","N","o",".">>

MaxCols == 2
MaxCells == 2

\* the sequences over S of a length up to n
SeqsUpTo(S, n) == UNION {[1..k -> S] : k \in 0..n}

\* columns as the service describes them: with a label (two of the labels
\* normalize to the same key) or without one
SampleCols ==
    {[label |-> T_LOCO_No], [label |-> T_CauseOfFailure], [label |-> T_LOCO_NO], [id |-> "D"]}

\* cells as the service writes them: null, a raw value (0 and false among
\* them), a formatted value alone, an empty formatted value beside a raw
\* value, and a raw value of null
SampleCells ==
    {Null,
     [v |-> [type |-> "number", num |-> 22003]],
     [v |-> [type |-> "number", num |-> 0]],
     [v |-> [type |-> "boolean", bool |-> FALSE]],
     [f |-> T_TractionMotorFault],
     [v |-> [type |-> "string", str |-> T_abc], f |-> <<>>],
     [v |-> Null]}

\* the response texts handed to parseGvizData: tables of no row or one row,
\* and the texts that hold no table
SampleTexts ==
    {[prefix |-> TRUE,
      json |-> [status |-> "ok", table |-> [cols |-> cols, rows |-> rows]]] :
        cols \in SeqsUpTo(SampleCols, MaxCols),
        rows \in {<<>>} \cup {<<[c |-> c]>> : c \in SeqsUpTo(SampleCells, MaxCells)}}
    \cup BrokenTexts
    \cup {[prefix |-> TRUE],
          [prefix |-> TRUE,
           json |-> [status |-> "error",
                     table |-> [cols |-> <<[label |-> T_LocoNo]>>, rows |-> <<>>]]],
          [prefix |-> TRUE, json |-> [status |-> "ok", table |-> [rows |-> <<>>]]],
          [prefix |-> TRUE,
           json |-> [status |-> "ok", table |-> [cols |-> <<[label |-> T_LocoNo]>>]]]}

CallParseGvizData(text, normalizeKeys) ==
    /\ lastCall = NoCall
    /\ lastCall' = [op |-> "parseGvizData", text |-> text, normalizeKeys |-> normalizeKeys]
    /\ lastResult' = parseGvizData(text, normalizeKeys)
    /\ UNCHANGED <<allFailures, qVars, editVars, viewVars, appVars>>

\* tables of one row whose one column has a label of letters of either case,
\* digits, white space and punctuation, parsed with normalized keys
MaxLabel == 3
SampleLabels == SeqsUpTo({"a", "Z", "7", " ", ".", "_"}, MaxLabel)

LabelText(label) ==
    [prefix |-> TRUE,
     json |-> [status |-> "ok",
               table |-> [cols |-> <<[label |-> label]>>,
                          rows |-> <<[c |-> <<[f |-> T_abc]>>]>>]]]

CallParseLabelled(label) == CallParseGvizData(LabelText(label), TRUE)

\* calls of parseDateDDMMYY and getFinancialYear

\* the parts a date cell is written with: days, months and years in and out
\* of range, with and without leading zero, and parts that are no numbers
DayParts == {<<"0">>, <<"1">>, <<"1","5">>, <<"2","8">>, <<"2","9">>, <<"3","0">>, <<"3","1">>,
             <<"3","2">>, <<"1","5","x">>, <<"x">>, <<>>}
MonthParts == {<<"0">>, <<"1">>, <<"0","2">>, <<"3">>, <<"0","3">>, <<"0","4">>, <<"1","2">>,
               <<"1","3">>, <<"3","x">>, <<>>}
YearParts == {<<"0","0">>, <<"0","5">>, <<"0","9">>, <<"2","3">>, <<"2","4">>, <<"9","9">>,
              <<"1","0","0">>, <<"1","9","0","0">>, <<"2","0","2","4">>, <<"2","4","x">>, <<>>}

\* the lists of parts of the sample date cells: three parts, or another number
SampleParts ==
    {<<d, m, y>> : d \in DayParts, m \in MonthParts, y \in YearParts}
    \cup {<<>>, <<<<"1","5">>>>, <<<<"1","5">>, <<"0","3">>>>,
          <<<<"1","5">>, <<"0","3">>, <<"2","4">>, <<"1">>>>}

\* the parts written one after the other, sep1 after the first part and sep2
\* after the others
RECURSIVE JoinParts(_, _, _)
JoinParts(parts, sep1, sep2) ==
    IF parts = <<>> THEN <<>>
    ELSE IF Len(parts) = 1 THEN parts[1]
    ELSE parts[1] \o <<sep1>> \o JoinParts(Tail(parts), sep2, sep2)

CallParseDate(parts, sep1, sep2) ==
    /\ lastCall = NoCall
    /\ lastCall' = [op |-> "parseDateDDMMYY", parts |-> parts,
                    dateString |-> JoinParts(parts, sep1, sep2)]
    /\ lastResult' = parseDateDDMMYY(JoinParts(parts, sep1, sep2))
    /\ UNCHANGED <<allFailures, qVars, editVars, viewVars, appVars>>

\* the views take the financial year of the dates that parsed
CallGetFinancialYear(parts, sep1, sep2) ==
    /\ lastCall = NoCall
    /\ parseDateDDMMYY(JoinParts(parts, sep1, sep2)) # Null
    /\ lastCall' = [op |-> "getFinancialYear", dateString |-> JoinParts(parts, sep1, sep2),
                    date |-> parseDateDDMMYY(JoinParts(parts, sep1, sep2))]
    /\ lastResult' = getFinancialYear(parseDateDDMMYY(JoinParts(parts, sep1, sep2)))
    /\ UNCHANGED <<allFailures, qVars, editVars, viewVars, appVars>>

\* labels and values of the failure sheets
T_Equipment == <<"E","q","u","i","p","m","e","n","t">>
T_Component == <<"C","o","m","p","o","n","e","n","t">>
T_Responsibility == <<"R","e","s","p","o","n","s","i","b","i","l","i","t","y">>
T_ShedInvestigation == <<"S","h","e","d"," ","I","n","v","e","s","t","i","g","a","t","i","o","n">>
T_ComponentFailed == <<"C","o","m","p","o","n","e","n","t"," ","F","a","i","l","e","d">>
T_ShedSection == <<"S","h","e","d"," ","S","e","c","t","i","o","n">>
T_ICMS == <<"I","C","M","S">>
T_MessageICMS == <<"M","e","s","s","a","g","e","/","I","C","M","S">>
T_Message == <<"M","e","s","s","a","g","e">>
T_ICMS_1 == <<"I","C","M","S","-","1">>
T_ELE == <<"E","L","E">>
T_blank == <<" ">>

\* an incident as both failure sheets describe it: its date, the cause found,
\* the equipment, the component and the section responsible
Incidents ==
    [date : {T_15_04_24, <<>>},
     cause : {T_TractionMotorFault, <<>>},
     equipment : {T_TM, <<>>},
     component : {T_abc},
     responsibility : {T_ELE, <<>>}]

\* the cell of a text value: null for an empty cell
CellOf(s) == IF s = <<>> THEN Null ELSE TextCell(s)

\* the Traction_failures sheet (variant A) with the incident in its one row
Wag7Text(incident) ==
    TableText(<<T_LocoNo, T_DateFailed, T_CauseOfFailure, T_Equipment, T_Component,
                T_Responsibility>>,
              <<<<NumberCell(22003), CellOf(incident.date), CellOf(incident.cause),
                  CellOf(incident.equipment), CellOf(incident.component),
                  CellOf(incident.responsibility)>>>>)

\* the G4_Failures sheet (variant B) with the incident in its one row, and
\* its ICMS and Message/ICMS columns
Wdg4Text(incident, icms, messageicms) ==
    TableText(<<T_LocoNo, T_DateOfFailure, T_ShedInvestigation, T_System, T_ComponentFailed,
                T_ShedSection, T_ICMS, T_MessageICMS>>,
              <<<<TextCell(T_12A), CellOf(incident.date), CellOf(incident.cause),
                  CellOf(incident.equipment), CellOf(incident.component),
                  CellOf(incident.responsibility), CellOf(icms), CellOf(messageicms)>>>>)

\* what the two sheets may answer with: an incident each, a sheet of fewer
\* columns, a sheet without rows, and the texts that hold no table
Wag7Texts ==
    {Wag7Text(incident) : incident \in Incidents}
    \cup {TableText(<<T_LocoNo, T_DateFailed>>, <<<<NumberCell(22003), TextCell(T_15_04_24)>>>>),
          TableText(<<T_LocoNo, T_DateFailed>>, <<>>)}
    \cup BrokenTexts

Wdg4Texts ==
    {Wdg4Text(incident, icms, messageicms) :
        incident \in Incidents, icms \in {<<>>, T_blank, T_ICMS_1},
        messageicms \in {<<>>, T_Message, T_ICMS}}
    \cup {TableText(<<T_LocoNo, T_DateOfFailure>>, <<<<TextCell(T_12A), TextCell(T_15_04_24)>>>>)}
    \cup BrokenTexts

\* fetchSheet(sheetName, normalizeKeys) of a response that arrives with text
FetchedSheet(text, normalizeKeys) == parseGvizData(text, normalizeKeys)

getAllWag7Failures(text) == FetchedSheet(text, TRUE)

getAllWdg4Failures(text) ==
    IF FetchedSheet(text, TRUE).threw THEN Threw
    ELSE Returned([i \in 1..Len(FetchedSheet(text, TRUE).value) |->
                      transformWDG4Failure(FetchedSheet(text, TRUE).value[i])])

\* await Promise.all([getAllWag7Failures(), getAllWdg4Failures()])
AllFailuresOf(wag7, wdg4) ==
    IF wag7.threw \/ wdg4.threw THEN Threw
    ELSE Returned([wag7Raw |-> wag7.value, wdg4Raw |-> wdg4.value])

\* the split of the WDG4 summary view: icmsFailures and messageFailures
Wdg4ViewIsIcms(f) == ~Falsy(f.icms) /\ trim(f.icms) # <<>>
Wdg4ViewIsMessage(f) == Falsy(f.icms) \/ trim(f.icms) = <<>>

\* isIcms of the meeting report, applied to the records of both sheets
ReportIsIcms(f) ==
    /\ ~Falsy(f.icmsmessage)
    /\ toUpperCase(f.icmsmessage) # S_MESSAGE
    /\ trim(f.icmsmessage) # <<>>

LoadFailures(wag7Text, wdg4Text) ==
    /\ lastCall = NoCall
    /\ lastCall' = [op |-> "loadFailures", wag7Text |-> wag7Text, wdg4Text |-> wdg4Text]
    /\ lastResult' = AllFailuresOf(getAllWag7Failures(wag7Text), getAllWdg4Failures(wdg4Text))
    /\ UNCHANGED <<allFailures, qVars, editVars, viewVars, appVars>>


NextCalls ==
    \/ \E text \in SampleTexts, normalizeKeys \in BOOLEAN :
          CallParseGvizData(text, normalizeKeys)
    \/ \E parts \in SampleParts, sep1 \in {"-", "/"}, sep2 \in {"-", "/"} :
          CallParseDate(parts, sep1, sep2)
    \/ \E parts \in SampleParts, sep1 \in {"-", "/"}, sep2 \in {"-", "/"} :
          CallGetFinancialYear(parts, sep1, sep2)
    \/ \E wag7Text \in Wag7Texts, wdg4Text \in Wdg4Texts : LoadFailures(wag7Text, wdg4Text)
    \/ \E label \in SampleLabels : CallParseLabelled(label)

-----------------------------------------------------------------------------
(* Properties of parseGvizData *)

ParseCalled == lastCall.op = "parseGvizData"

NoEnvelope(text) == ~text.prefix \/ "json" \notin DOMAIN text
ErrorStatus(text) ==
    /\ ~NoEnvelope(text)
    /\ "status" \in DOMAIN text.json
    /\ text.json.status = "error"
NoTable(text) ==
    /\ ~NoEnvelope(text)
    /\ ~ErrorStatus(text)
    /\ \/ "table" \notin DOMAIN text.json
       \/ {"cols", "rows"} \ DOMAIN text.json.table # {}

\* C11 as claimed: the call raises an error whenever the callback prefix is
\* missing, the payload has status 'error', or the table, its cols or its rows
\* are missing; no record list is returned then.
C11_Claimed_MissingTableFails ==
    (ParseCalled /\ (NoEnvelope(lastCall.text) \/ ErrorStatus(lastCall.text)
                        \/ NoTable(lastCall.text)))
        => lastResult.threw

\* C11 as amended: the call raises an error whenever the callback prefix is
\* missing, the wrapped part is no JSON or the payload has status 'error';
\* when the table, its cols or its rows are missing it raises no error and
\* returns the empty record list.
C11_MissingTableGivesEmptyList ==
    /\ (ParseCalled /\ (NoEnvelope(lastCall.text) \/ ErrorStatus(lastCall.text)))
          => lastResult.threw
    /\ (ParseCalled /\ NoTable(lastCall.text))
          => lastResult = [threw |-> FALSE, value |-> <<>>]

\* a payload with a table that has rows and no cols was parsed
C11_Witness ==
    /\ ParseCalled
    /\ lastCall.text.prefix
    /\ "json" \in DOMAIN lastCall.text
    /\ "table" \in DOMAIN lastCall.text.json
    /\ "rows" \in DOMAIN lastCall.text.json.table
    /\ "cols" \notin DOMAIN lastCall.text.json.table
    /\ ~lastResult.threw

\* the key of column index of the parsed table
KeyOfCol(index) == ColName(lastCall.text.json.table.cols[index], lastCall.normalizeKeys)

\* a text with a table was parsed
TableParsed ==
    /\ ParseCalled
    /\ ~NoEnvelope(lastCall.text)
    /\ ~ErrorStatus(lastCall.text)
    /\ ~NoTable(lastCall.text)

ContractString(cell) ==
    IF cell # Null /\ "f" \in DOMAIN cell /\ Len(cell.f) > 0 THEN cell.f
    ELSE IF cell = Null \/ "v" \notin DOMAIN cell THEN <<>>
    ELSE IF cell.v = Null THEN <<>>
    ELSE IF cell.v = [type |-> "number", num |-> 0] THEN <<"0">>
    ELSE IF cell.v = [type |-> "number", num |-> 22003] THEN T_22003
    ELSE IF cell.v = [type |-> "boolean", bool |-> FALSE] THEN <<"f","a","l","s","e">>
    ELSE cell.v.str

\* no column after index bears the same key
LastOfItsKey(index) ==
    \A later \in (index + 1)..Len(lastCall.text.json.table.cols) :
        KeyOfCol(later) # KeyOfCol(index)

\* the scenario of the contract: columns "LOCO No." and "Cause of Failure",
\* one row [{v:22003},{f:"Traction motor fault"}]
ScenarioText ==
    [prefix |-> TRUE,
     json |-> [status |-> "ok",
               table |-> [cols |-> <<[label |-> T_LOCO_No], [label |-> T_CauseOfFailure]>>,
                          rows |-> <<[c |-> <<[v |-> [type |-> "number", num |-> 22003]],
                                              [f |-> T_TractionMotorFault]>>]>>]]]

ScenarioRecord ==
    <<<<S_locono, T_22003>>,
      <<<<"c","a","u","s","e","o","f","f","a","i","l","u","r","e">>, T_TractionMotorFault>>>>

\* C13: under every column with a key the record holds the cell's formatted
\* value f when f is present and non-empty, otherwise its raw value v as a
\* string when v is present (0 gives "0", false gives "false"), otherwise the
\* empty string; the scenario's table with normalizeKeys = true gives
\* {locono: "22003", causeoffailure: "Traction motor fault"}.
C13_FormattedThenRawThenEmpty ==
    /\ (TableParsed /\ ~lastResult.threw) =>
          \A r \in 1..Len(lastResult.value) :
              \A index \in 1..Len(lastCall.text.json.table.cols) :
                  (KeyOfCol(index) # <<>> /\ LastOfItsKey(index)) =>
                      Get(lastResult.value[r], KeyOfCol(index))
                          = ContractString(lastCall.text.json.table.rows[r].c[index])
    /\ (ParseCalled /\ lastCall.text = ScenarioText /\ lastCall.normalizeKeys) =>
          lastResult = [threw |-> FALSE, value |-> <<ScenarioRecord>>]

\* the scenario's table was parsed with normalized keys
C13_Witness ==
    /\ ParseCalled
    /\ lastCall.text = ScenarioText
    /\ lastCall.normalizeKeys
    /\ ~lastResult.threw
    /\ Len(lastResult.value) = 1

-----------------------------------------------------------------------------
(* Properties of parseDateDDMMYY and getFinancialYear *)

ParseDateCalled == lastCall.op = "parseDateDDMMYY"

\* a part made of decimal digits only, and the number it denotes
Numeric(part) == part # <<>> /\ \A i \in 1..Len(part) : part[i] \in {Digits[k] : k \in 1..10}
RECURSIVE DecimalValue(_)
DecimalValue(part) ==
    IF part = <<>> THEN 0
    ELSE 10 * DecimalValue(SubSeq(part, 1, Len(part) - 1)) + DigitValue(part[Len(part)])

\* the length of month m (1..12) of year y in the calendar
MonthLength(m, y) ==
    IF m = 2 THEN (IF y % 400 = 0 \/ (y % 4 = 0 /\ y % 100 # 0) THEN 29 ELSE 28)
    ELSE <<31, 0, 31, 30, 31, 30, 31, 31, 30, 31, 30, 31>>[m]

\* what the contract gives for the numbers d, m and the full year y
ContractDate(d, m, y) ==
    IF m >= 1 /\ m <= 12 /\ d >= 1 /\ d <= MonthLength(m, y)
    THEN [year |-> y, month |-> m - 1, date |-> d]
    ELSE Null

CenturyYear(y) == IF y < 100 THEN 2000 + y ELSE y

\* C14: for three numeric parts d, m, y the call returns a date exactly when
\* (d, m, y') is a date of the calendar, y' being 2000 + y for y < 100 and y
\* otherwise, and the date then has UTC day d, month m and year y'; for every
\* other numeric triple it returns null (no clamping, no rollover).
C14_DateIffCalendarDate ==
    (ParseDateCalled /\ Len(lastCall.parts) = 3
       /\ \A i \in 1..3 : Numeric(lastCall.parts[i])) =>
        lastResult = ContractDate(DecimalValue(lastCall.parts[1]),
                                  DecimalValue(lastCall.parts[2]),
                                  CenturyYear(DecimalValue(lastCall.parts[3])))

\* '29-02-24' or '29/02/24' was parsed into 29 February 2024
C14_Witness ==
    /\ ParseDateCalled
    /\ lastCall.parts = <<<<"2","9">>, <<"0","2">>, <<"2","4">>>>
    /\ lastResult = [year |-> 2024, month |-> 1, date |-> 29]

\* C15 as claimed: the call returns null whenever the input does not split
\* into exactly three parts or one of the three parts is not a number, such as
\* digits followed by letters ('15x-03-24') or an empty part.
C15_Claimed_NullUnlessNumericParts ==
    (ParseDateCalled
       /\ (Len(lastCall.parts) # 3
             \/ \E i \in 1..Len(lastCall.parts) : ~Numeric(lastCall.parts[i]))) =>
        lastResult = Null

FinancialYearCalled == lastCall.op = "getFinancialYear"

\* the label of the formula: the years written as numbers
FormulaLabel(date) ==
    IF date.month >= 3
    THEN NumToString(date.year) \o <<"-">> \o NumToString((date.year + 1) % 100)
    ELSE NumToString(date.year - 1) \o <<"-">> \o NumToString(date.year % 100)

\* the last two decimal digits of n, a leading zero kept
TwoDigits(n) == <<Digits[((n \div 10) % 10) + 1], Digits[(n % 10) + 1]>>

\* C16 as claimed: every date in April..December of year Y gets the label
\* "Y-((Y+1) mod 100)" and every date in January..March the label
\* "(Y-1)-(Y mod 100)", the numbers written as the formula gives them.
C16_Claimed_LabelOfFormula ==
    FinancialYearCalled => lastResult = FormulaLabel(lastCall.date)

\* C16 as amended: every date in April..December of year Y gets the label made
\* of Y, '-' and the last two decimal digits of Y+1, and every date in
\* January..March the label made of Y-1, '-' and the last two decimal digits
\* of Y, a leading zero kept ('2005-06', '2099-00'); 15-03-24 gets '2023-24'
\* and 15-04-24 gets '2024-25'.
C16_LabelHasTwoDigits ==
    /\ FinancialYearCalled =>
          lastResult =
              IF lastCall.date.month >= 3
              THEN NumToString(lastCall.date.year) \o <<"-">> \o TwoDigits(lastCall.date.year + 1)
              ELSE NumToString(lastCall.date.year - 1) \o <<"-">> \o TwoDigits(lastCall.date.year)
    /\ (FinancialYearCalled
          /\ lastCall.dateString = <<"1","5","-","0","3","-","2","4">>) =>
          lastResult = <<"2","0","2","3","-","2","4">>
    /\ (FinancialYearCalled
          /\ lastCall.dateString = <<"1","5","-","0","4","-","2","4">>) =>
          lastResult = <<"2","0","2","4","-","2","5">>

\* the financial year of 15-04-05 was taken: '2005-06'
C16_Witness ==
    /\ FinancialYearCalled
    /\ lastCall.dateString = <<"1","5","-","0","4","-","0","5">>
    /\ lastResult = <<"2","0","0","5","-","0","6">>

-----------------------------------------------------------------------------
(* Properties of the reconciliation of the two failure sheets *)

\* both failure sheets were loaded
FailuresLoaded == lastCall.op = "loadFailures" /\ ~lastResult.threw

\* the names of the fields of a reconciled record, as keys of an object
FieldChars ==
    [datefailed |-> <<"d","a","t","e","f","a","i","l","e","d">>,
     locono |-> <<"l","o","c","o","n","o">>,
     muwith |-> <<"m","u","w","i","t","h">>,
     icmsmessage |-> <<"i","c","m","s","m","e","s","s","a","g","e">>,
     div |-> <<"d","i","v">>,
     rly |-> <<"r","l","y">>,
     briefmessage |-> <<"b","r","i","e","f","m","e","s","s","a","g","e">>,
     causeoffailure |-> <<"c","a","u","s","e","o","f","f","a","i","l","u","r","e">>,
     equipment |-> <<"e","q","u","i","p","m","e","n","t">>,
     component |-> <<"c","o","m","p","o","n","e","n","t">>,
     responsibility |-> <<"r","e","s","p","o","n","s","i","b","i","l","i","t","y">>,
     elocosaf |-> <<"e","l","o","c","o","s","a","f">>,
     icms |-> <<"i","c","m","s">>,
     documentlink |-> <<"d","o","c","u","m","e","n","t","l","i","n","k">>,
     medialink |-> <<"m","e","d","i","a","l","i","n","k">>,
     trainno |-> <<"t","r","a","i","n","n","o">>,
     load |-> <<"l","o","a","d">>,
     station |-> <<"s","t","a","t","i","o","n">>,
     schparticulars |-> <<"s","c","h","p","a","r","t","i","c","u","l","a","r","s">>]

\* the fields a record of either sheet exposes
KeySetOf(obj) == {obj[i][1] : i \in 1..Len(obj)}
FieldSetOf(record) == {FieldChars[name] : name \in DOMAIN record}

\* the two records carry the same values in the five fields of the incident
SameIncidentFields(a, b) ==
    /\ Get(a, FieldChars.datefailed) = b.datefailed
    /\ Get(a, FieldChars.causeoffailure) = b.causeoffailure
    /\ Get(a, FieldChars.equipment) = b.equipment
    /\ Get(a, FieldChars.component) = b.component
    /\ Get(a, FieldChars.responsibility) = b.responsibility

\* C17: when the Traction_failures sheet and the G4_Failures sheet describe
\* the same incident, the record of the one and the reconciled record of the
\* other have identical values in datefailed, causeoffailure, equipment,
\* component and responsibility (the latter taken from dateoffailure,
\* shedinvestigation, system, componentfailed and shedsection).
C17_SameIncidentSameValues ==
    FailuresLoaded =>
        \A incident \in Incidents :
            (/\ lastCall.wag7Text = Wag7Text(incident)
             /\ \E icms \in {<<>>, T_blank, T_ICMS_1}, messageicms \in {<<>>, T_Message, T_ICMS} :
                    lastCall.wdg4Text = Wdg4Text(incident, icms, messageicms)) =>
                /\ Len(lastResult.value.wag7Raw) = 1
                /\ Len(lastResult.value.wdg4Raw) = 1
                /\ SameIncidentFields(lastResult.value.wag7Raw[1], lastResult.value.wdg4Raw[1])
                /\ lastResult.value.wdg4Raw[1].datefailed = incident.date
                /\ lastResult.value.wdg4Raw[1].causeoffailure = incident.cause
                /\ lastResult.value.wdg4Raw[1].equipment = incident.equipment
                /\ lastResult.value.wdg4Raw[1].component = incident.component
                /\ lastResult.value.wdg4Raw[1].responsibility = incident.responsibility

\* both sheets gave the incident of 15-04-24 with all its five values
C17_Witness ==
    /\ FailuresLoaded
    /\ lastCall.wag7Text = Wag7Text([date |-> T_15_04_24, cause |-> T_TractionMotorFault,
                                     equipment |-> T_TM, component |-> T_abc,
                                     responsibility |-> T_ELE])
    /\ Len(lastResult.value.wdg4Raw) = 1
    /\ lastResult.value.wdg4Raw[1].datefailed = T_15_04_24
    /\ lastResult.value.wdg4Raw[1].causeoffailure = T_TractionMotorFault
    /\ lastResult.value.wdg4Raw[1].equipment = T_TM
    /\ lastResult.value.wdg4Raw[1].component = T_abc
    /\ lastResult.value.wdg4Raw[1].responsibility = T_ELE
    /\ SameIncidentFields(lastResult.value.wag7Raw[1], lastResult.value.wdg4Raw[1])

\* C18 as claimed: every failure record handed to the views exposes the same
\* set of field names, whether it came from the Traction_failures sheet or
\* from the G4_Failures sheet, whatever the columns of the two sheets.
C18_Claimed_SameFieldSet ==
    FailuresLoaded =>
        \A i \in 1..Len(lastResult.value.wag7Raw), j \in 1..Len(lastResult.value.wdg4Raw) :
            KeySetOf(lastResult.value.wag7Raw[i]) = FieldSetOf(lastResult.value.wdg4Raw[j])

\* the record's ICMS column is blank or white space only
IcmsBlank(f) == \A i \in 1..Len(f.icms) : f.icms[i] = " "

\* C19 as claimed: a WDG4 failure is a message failure exactly when its ICMS
\* column is blank or white space only and an ICMS failure otherwise, in the
\* WDG4 summary view and in the meeting report alike, and in each the two
\* classes are disjoint and cover all records.
C19_Claimed_OneRuleInAllViews ==
    FailuresLoaded =>
        \A j \in 1..Len(lastResult.value.wdg4Raw) :
            /\ Wdg4ViewIsMessage(lastResult.value.wdg4Raw[j]) <=> IcmsBlank(lastResult.value.wdg4Raw[j])
            /\ Wdg4ViewIsIcms(lastResult.value.wdg4Raw[j]) <=> ~IcmsBlank(lastResult.value.wdg4Raw[j])
            /\ ReportIsIcms(lastResult.value.wdg4Raw[j]) <=> ~IcmsBlank(lastResult.value.wdg4Raw[j])

-----------------------------------------------------------------------------
(* The edit endpoint of the master spreadsheet (Apps Script) *)

\* WAG7_MASTER_TAB_NAME, WDG4_MASTER_TAB_NAME and the two log sheets
WAG7_MASTER_TAB_NAME == "22-23 Traction Failures"
WDG4_MASTER_TAB_NAME == "22-23 Diesel Failures"

S_WAG7 == <<"W","A","G","7">>
S_WDG4 == <<"W","D","G","4">>
T_WAP7 == <<"W","A","P","7">>
T_old == <<"o","l","d">>
T_dup == <<"d","u","p">>
T_new == <<"n","e","w">>
T_NA == <<"N","/","A">>
T_editor == <<"t","e","c","h","c","e","l","l","d","l","s","k","z","j","@","g","m","a","i","l",".","c","o","m">>
T_unverified == <<"b","r","t","1","1","7","9","f","l","@","g","m","a","i","l",".","c","o","m">>
T_stranger == <<"s","o","m","e","o","n","e","@","e","x","a","m","p","l","e",".","c","o","m">>
T_tokEditor == <<"t","o","k","-","e","d","i","t","o","r">>
T_tokStranger == <<"t","o","k","-","s","t","r","a","n","g","e","r">>
T_tokUnverified == <<"t","o","k","-","u","n","v","e","r","i","f","i","e","d">>
T_tokBad == <<"t","o","k","-","b","a","d">>
T_Timestamp == <<"n","e","w"," ","D","a","t","e","(",")">>

AUTHORIZED_USERS ==
    {<<"t","e","c","h","c","e","l","l","j","e","d","s","l","k","z","j","@","g","m","a","i","l",".","c","o","m">>,
     <<"t","e","c","h","c","e","l","l","d","l","s","k","z","j","@","g","m","a","i","l",".","c","o","m">>,
     <<"b","r","t","1","1","7","9","f","l","@","g","m","a","i","l",".","c","o","m">>,
     <<"s","s","e","e","l","a","b","d","l","s","k","z","j","@","g","m","a","i","l",".","c","o","m">>}

\* a cell of a sheet: a text or a number
Str(s) == [type |-> "string", str |-> s]

\* the header row of a log sheet
LogHeader ==
    <<Str(<<"T","i","m","e","s","t","a","m","p">>),
      Str(<<"U","s","e","r"," ","E","m","a","i","l">>),
      Str(<<"L","o","c","o"," ","N","o">>),
      Str(<<"D","a","t","e"," ","F","a","i","l","e","d">>),
      Str(<<"R","e","s","p","o","n","s","i","b","i","l","i","t","y">>),
      Str(<<"O","l","d"," ","C","a","u","s","e">>),
      Str(<<"N","e","w"," ","C","a","u","s","e">>)>>

\* the spreadsheet as the script finds it: per tab the rows of its data range,
\* the header row first
Wag7Tab ==
    <<<<Str(T_LocoNo), Str(T_DateFailed), Str(T_CauseOfFailure)>>,
      <<[type |-> "number", num |-> 22003], Str(T_15_04_24), Str(T_old)>>,
      <<[type |-> "number", num |-> 22003], Str(T_15_04_24), Str(T_dup)>>,
      <<[type |-> "number", num |-> 22004], Str(T_10_06_24), Str(T_old)>>>>
Wdg4Tab ==
    <<<<Str(T_Loco), Str(T_DateOfFailure), Str(T_ShedInvestigation)>>,
      <<Str(T_12A), Str(T_15_04_24), Str(T_old)>>>>

MasterSpreadsheet == (WAG7_MASTER_TAB_NAME :> Wag7Tab) @@ (WDG4_MASTER_TAB_NAME :> Wdg4Tab)

\* the master spreadsheet, one without the diesel tab, and one whose traction
\* tab has no cause column and whose diesel log sheet is there already
SampleSpreadsheets ==
    {MasterSpreadsheet,
     (WAG7_MASTER_TAB_NAME :> Wag7Tab),
     (WAG7_MASTER_TAB_NAME :> <<<<Str(T_LocoNo), Str(T_DateFailed)>>,
                                 <<[type |-> "number", num |-> 22003], Str(T_15_04_24)>>>>)
        @@ (WDG4_MASTER_TAB_NAME :> Wdg4Tab) @@ ("WDG4_Edit_Log" :> <<LogHeader>>)}

MaxPosts == 2

\* the body of a request that is no JSON
NotJson == [notJson |-> TRUE]

\* a body with all its fields; a field that is left out is undefined after
\* destructuring
PostOf(idToken, no, dateFailed, newCauseOfFailure, type, responsibility) ==
    [idToken |-> idToken, locoNo |-> no, dateFailed |-> dateFailed,
     newCauseOfFailure |-> newCauseOfFailure, locoType |-> type,
     responsibility |-> responsibility]

PostTokens == {Undefined, T_tokEditor, T_tokStranger, T_tokUnverified, T_tokBad}

\* the bodies posted, with every token: requests for a row of the traction
\* sheet (one with the number padded with blanks and an empty new cause), for
\* a row of the diesel sheet and for a loco that is in no sheet, requests that
\* lack a field or name no fleet; and a body that is no JSON
PostsWith(idToken) ==
    {PostOf(idToken, T_22003, T_15_04_24, T_new, S_WAG7, T_ELE),
     PostOf(idToken, T_22003_padded, T_15_04_24, <<>>, S_WAG7, Undefined),
     PostOf(idToken, T_12A, T_15_04_24, T_new, S_WDG4, T_ELE),
     PostOf(idToken, T_99, T_15_04_24, T_new, S_WAG7, T_ELE),
     PostOf(idToken, Undefined, T_15_04_24, T_new, S_WAG7, T_ELE),
     PostOf(idToken, T_22003, Undefined, T_new, S_WAG7, T_ELE),
     PostOf(idToken, T_22003, T_15_04_24, Undefined, S_WAG7, T_ELE),
     PostOf(idToken, T_22003, T_15_04_24, T_new, T_WAP7, T_ELE)}

PostContents == UNION {PostsWith(idToken) : idToken \in PostTokens} \cup {NotJson}

\* what the tokeninfo service answers for an ID token: the claims of the
\* token, or an error status (UrlFetchApp.fetch throws) for a token it rejects
TokenInfoOf(idToken) ==
    IF idToken = T_tokEditor THEN Returned([email |-> T_editor, email_verified |-> TRUE])
    ELSE IF idToken = T_tokStranger THEN Returned([email |-> T_stranger, email_verified |-> TRUE])
    ELSE IF idToken = T_tokUnverified
        THEN Returned([email |-> T_unverified, email_verified |-> FALSE])
    ELSE Threw

\* the e-mail as it would be returned if email_verified were not looked at
EmailOfUnverifiedToo(idToken) ==
    IF TokenInfoOf(idToken).threw THEN Null
    ELSE IF ~Falsy(TokenInfoOf(idToken).value.email)
        THEN [email |-> TokenInfoOf(idToken).value.email]
    ELSE Null

\* null, or the e-mail in the field email
validateTokenAndGetUserEmail(idToken) ==
    IF TokenInfoOf(idToken).threw THEN Null
    ELSE IF ~Falsy(TokenInfoOf(idToken).value.email) /\ TokenInfoOf(idToken).value.email_verified
        THEN [email |-> TokenInfoOf(idToken).value.email]
    ELSE Null

\* ContentService.createTextOutput(JSON.stringify(data)): the status code is
\* not part of what is sent
createJsonResponse(data, statusCode) == data

\* the response of the catch block around doPost; the message is given
\* without the text of the error
ServerError == createJsonResponse([status |-> "error", message |-> "Server Error"], 500)

Outcome(ss, response) == [spreadsheet |-> ss, response |-> response]

\* the log sheet as it would be if it were made but the entry not appended
LogSheetWithoutEntry(ss, logSheetName, row) ==
    IF logSheetName \in DOMAIN ss THEN ss ELSE ss @@ (logSheetName :> <<LogHeader>>)

\* logSheet.appendRow(row), after insertSheet and the header row when the log
\* sheet is not there
LogAppended(ss, logSheetName, row) ==
    IF logSheetName \in DOMAIN ss THEN [ss EXCEPT ![logSheetName] = Append(@, row)]
    ELSE ss @@ (logSheetName :> <<LogHeader, row>>)

logChange(ss, type, userEmail, no, dateFailed, responsibility, oldVal, newVal) ==
    LogAppended(ss,
                IF type = S_WAG7 THEN "WAG7_Edit_Log" ELSE "WDG4_Edit_Log",
                <<Str(T_Timestamp), Str(userEmail), Str(no), Str(dateFailed),
                  Str(IF Falsy(responsibility) THEN T_NA ELSE responsibility),
                  oldVal, Str(newVal)>>)

\* values[i][locoNoCol] == locoNo: a number cell equals the string that
\* converts to its number, a text cell the same string
LooseEquals(cell, s) ==
    IF cell.type = "number"
    THEN (IF trim(s) = <<>> THEN cell.num = 0
          ELSE /\ \A k \in 1..Len(trim(s)) : IsDigit(trim(s)[k])
               /\ DigitsValue(trim(s), 0) = cell.num)
    ELSE cell.str = s

\* headers.findIndex(h => h is one of names), counted from 1; 0 stands for -1
HeaderIndex(headers, names) ==
    IF \E i \in 1..Len(headers) : normalizeLabel(String(headers[i])) \in names
    THEN CHOOSE i \in 1..Len(headers) :
            /\ normalizeLabel(String(headers[i])) \in names
            /\ \A j \in 1..(i - 1) : normalizeLabel(String(headers[j])) \notin names
    ELSE 0

RowMatches(row, locoNoCol, dateFailedCol, no, dateFailed) ==
    LooseEquals(row[locoNoCol], no) /\ String(row[dateFailedCol]) = dateFailed

\* the row as it would be if the loop went on to the last matching row
LastMatch(values, locoNoCol, dateFailedCol, no, dateFailed) ==
    IF \E i \in 2..Len(values) : RowMatches(values[i], locoNoCol, dateFailedCol, no, dateFailed)
    THEN CHOOSE i \in 2..Len(values) :
            /\ RowMatches(values[i], locoNoCol, dateFailedCol, no, dateFailed)
            /\ \A j \in (i + 1)..Len(values) :
                  ~RowMatches(values[j], locoNoCol, dateFailedCol, no, dateFailed)
    ELSE 0

\* the row at which the loop breaks; 0 when it runs to the end
FirstMatch(values, locoNoCol, dateFailedCol, no, dateFailed) ==
    IF \E i \in 2..Len(values) : RowMatches(values[i], locoNoCol, dateFailedCol, no, dateFailed)
    THEN CHOOSE i \in 2..Len(values) :
            /\ RowMatches(values[i], locoNoCol, dateFailedCol, no, dateFailed)
            /\ \A j \in 2..(i - 1) :
                  ~RowMatches(values[j], locoNoCol, dateFailedCol, no, dateFailed)
    ELSE 0

\* the loop over the rows: the cell is set, then the change is logged; an
\* error thrown by logChange is caught after the cell was set
UpdatedRow(payload, userEmail, env, ss, name, causeCol, i) ==
    IF i = 0
    THEN Outcome(ss, createJsonResponse([status |-> "error",
                                         message |-> "Record not found in Master Sheet"], 404))
    ELSE IF env = "logFails"
    THEN Outcome([ss EXCEPT ![name][i][causeCol] = Str(payload.newCauseOfFailure)], ServerError)
    ELSE Outcome(logChange([ss EXCEPT ![name][i][causeCol] = Str(payload.newCauseOfFailure)],
                           payload.locoType, userEmail, payload.locoNo, payload.dateFailed,
                           payload.responsibility, ss[name][i][causeCol],
                           payload.newCauseOfFailure),
                 createJsonResponse([status |-> "success",
                                     message |-> "Record updated and logged successfully."],
                                    200))

LocatedColumns(payload, userEmail, env, ss, name, locoNoCol, dateFailedCol, causeCol) ==
    IF locoNoCol = 0 \/ dateFailedCol = 0 \/ causeCol = 0
    THEN Outcome(ss, createJsonResponse([status |-> "error",
                                         message |-> "Required columns not found"], 500))
    ELSE UpdatedRow(payload, userEmail, env, ss, name, causeCol,
                    FirstMatch(ss[name], locoNoCol, dateFailedCol,
                               payload.locoNo, payload.dateFailed))

TargetSheetName(type) == IF type = S_WAG7 THEN WAG7_MASTER_TAB_NAME ELSE WDG4_MASTER_TAB_NAME

\* doPost from the authentication on
Authenticated(payload, userEmail, env, ss) ==
    IF userEmail = Null
    THEN Outcome(ss, createJsonResponse([status |-> "error", message |-> "Invalid token."], 401))
    ELSE IF userEmail.email \notin AUTHORIZED_USERS
    THEN Outcome(ss, createJsonResponse([status |-> "error",
                                         message |-> "User is not authorized."], 403))
    ELSE IF env = "openFails"
    THEN Outcome(ss, createJsonResponse([status |-> "error",
                                         message |-> "Could not open Master Spreadsheet."], 500))
    ELSE IF TargetSheetName(payload.locoType) \notin DOMAIN ss
    THEN Outcome(ss, createJsonResponse([status |-> "error",
                                         message |-> "Sheet not found in Master Spreadsheet."],
                                        404))
    ELSE LocatedColumns(payload, userEmail.email, env, ss, TargetSheetName(payload.locoType),
                        HeaderIndex(ss[TargetSheetName(payload.locoType)][1], {S_locono, S_loco}),
                        HeaderIndex(ss[TargetSheetName(payload.locoType)][1],
                                    {FieldChars.datefailed,
                                     <<"d","a","t","e","o","f","f","a","i","l","u","r","e">>}),
                        HeaderIndex(ss[TargetSheetName(payload.locoType)][1],
                                    {FieldChars.causeoffailure,
                                     <<"s","h","e","d","i","n","v","e","s","t","i","g","a","t","i","o","n">>}))

\* doPost(e): contents is e.postData.contents, env says whether openById or
\* logChange throws in this execution
doPost(contents, env, ss) ==
    IF contents = NotJson THEN Outcome(ss, ServerError)
    ELSE IF Falsy(contents.idToken)
    THEN Outcome(ss, createJsonResponse([status |-> "error",
                                         message |-> "Missing auth token."], 401))
    ELSE IF Falsy(contents.locoNo) \/ Falsy(contents.dateFailed)
            \/ contents.newCauseOfFailure = Undefined
    THEN Outcome(ss, createJsonResponse([status |-> "error",
                                         message |-> "Missing required fields."], 400))
    ELSE IF contents.locoType # S_WAG7 /\ contents.locoType # S_WDG4
    THEN Outcome(ss, createJsonResponse([status |-> "error",
                                         message |-> "Invalid Loco Type."], 400))
    ELSE Authenticated(contents, validateTokenAndGetUserEmail(contents.idToken), env, ss)

DoPost(contents, env) ==
    /\ posts < MaxPosts
    /\ posts' = posts + 1
    /\ lastCall' = [op |-> "doPost", contents |-> contents]
    /\ \E outcome \in {doPost(contents, env, spreadsheet)} :
          /\ spreadsheet' = outcome.spreadsheet
          /\ lastResult' = outcome.response
    /\ UNCHANGED <<allFailures, qVars, viewVars, appVars>>

\* a request posted to the endpoint by any client
Request(contents, env) == DoPost(contents, env) /\ UNCHANGED modalError

\* EditFailureModal: the failures of the table that are opened for editing,
\* records of the two fleets as the app holds them
EditedFailures ==
    {<<<<FieldChars.locono, T_22003>>, <<FieldChars.datefailed, T_15_04_24>>,
       <<FieldChars.causeoffailure, T_old>>, <<FieldChars.responsibility, T_ELE>>>>,
     <<<<FieldChars.locono, T_12A>>, <<FieldChars.datefailed, T_15_04_24>>,
       <<FieldChars.causeoffailure, T_old>>>>}

\* the body of the request as the endpoint parses it: JSON.stringify writes
\* locoNo, dateFailed, responsibility, oldCauseOfFailure, newCauseOfFailure
\* and idToken; there is no locoType, so payload.locoType is undefined
SubmittedBody(failure, causeOfFailure, idToken) ==
    PostOf(idToken, Get(failure, FieldChars.locono), Get(failure, FieldChars.datefailed),
           causeOfFailure, Undefined, OrEmpty(failure, FieldChars.responsibility))

\* handleSubmit: the request is posted and answered; onSuccess() for the
\* status 'success', the message of the response as the error otherwise
HandleSubmit(failure, causeOfFailure, idToken, env) ==
    /\ DoPost(SubmittedBody(failure, causeOfFailure, idToken), env)
    /\ modalError' = IF lastResult'.status = "success" THEN Null
                     ELSE [message |-> lastResult'.message]

NextEdit ==
    \/ \E contents \in PostContents, env \in {"ok", "openFails", "logFails"} :
          Request(contents, env)
    \/ \E failure \in EditedFailures, causeOfFailure \in {T_new, <<>>},
          idToken \in {T_tokEditor, T_tokStranger}, env \in {"ok", "openFails", "logFails"} :
          HandleSubmit(failure, causeOfFailure, idToken, env)

-----------------------------------------------------------------------------
(* The date filter of the summary views (WAG7SummaryView, WDG4SummaryView) *)

T_2024_04_15 == <<"2","0","2","4","-","0","4","-","1","5">>
T_2024_04_20 == <<"2","0","2","4","-","0","4","-","2","0">>

\* the values of a date input: empty, or a date written yyyy-mm-dd
DateInputs == {<<>>, T_2024_04_15, T_2024_04_20}

\* new Date('yyyy-mm-dd'): midnight UTC of that day
DateOfInput(value) ==
    [year |-> DigitsValue(SubSeq(value, 1, 4), 0),
     month |-> DigitsValue(SubSeq(value, 6, 7), 0) - 1,
     date |-> DigitsValue(SubSeq(value, 9, 10), 0)]

\* a < b for two instants at midnight UTC
Earlier(a, b) ==
    \/ a.year < b.year
    \/ a.year = b.year /\ a.month < b.month
    \/ a.year = b.year /\ a.month = b.month /\ a.date < b.date

\* the callback of allFailures.filter: start and end are the values of the
\* inputs; end stands for the last millisecond of its day, which a record's
\* midnight exceeds when its day is a later one
InRange(failureDate, start, end) ==
    /\ failureDate # Null
    /\ ~(start # <<>> /\ Earlier(failureDate, DateOfInput(start)))
    /\ ~(end # <<>> /\ Earlier(DateOfInput(end), failureDate))

\* the list as it would be set if the dates were not looked at for emptiness
FilteredAlways(start, end) ==
    SelectSeq(AllRefs(Len(allFailures)),
              LAMBDA ref : InRange(parseDateDDMMYY(DateFailedOf(Obj(ref))), start, end))

\* the list handleFilterApply hands to setFilteredFailures
FilteredOnApply(start, end) ==
    IF start = <<>> /\ end = <<>> THEN AllRefs(Len(allFailures))
    ELSE SelectSeq(AllRefs(Len(allFailures)),
                   LAMBDA ref : InRange(parseDateDDMMYY(DateFailedOf(Obj(ref))), start, end))

\* onStartDateChange, onEndDateChange
SetStartDate(value) ==
    /\ startDate' = value
    /\ UNCHANGED <<sumVars, qVars, editVars, filteredFailures, endDate, appVars>>

SetEndDate(value) ==
    /\ endDate' = value
    /\ UNCHANGED <<sumVars, qVars, editVars, filteredFailures, startDate, appVars>>

HandleFilterApply ==
    /\ lastCall' = [op |-> "handleFilterApply"]
    /\ filteredFailures' = FilteredOnApply(startDate, endDate)
    /\ UNCHANGED <<allFailures, lastResult, startDate, endDate, qVars, editVars, appVars>>

HandleFilterClear ==
    /\ lastCall' = [op |-> "handleFilterClear"]
    /\ startDate' = <<>>
    /\ endDate' = <<>>
    /\ filteredFailures' = AllRefs(Len(allFailures))
    /\ UNCHANGED <<allFailures, lastResult, qVars, editVars, appVars>>

\* the rows of the sheet the view has loaded: an ICMS failure and a message
\* of April 2024 and a record whose date does not parse
FilterRows ==
    {row \in SampleRows : /\ row.locono \in {T_22003, T_22004, <<"2","2","0","0","5">>}
                          /\ row.icmsmessage # S_MESSAGE}

NextFilter ==
    \/ \E row \in FilterRows : LoadRow(row)
    \/ \E value \in DateInputs : SetStartDate(value)
    \/ \E value \in DateInputs : SetEndDate(value)
    \/ HandleFilterApply
    \/ HandleFilterClear
    \/ RenderWAG7

-----------------------------------------------------------------------------
(* The search page (App) *)

MaxSearches == 3

T_two_blanks == <<" ", " ">>

\* what is typed into the search bar: a loco number, a number that is in no
\* list, blanks, nothing
SearchQueries == {T_22003, T_99, T_two_blanks, <<>>}

\* what getLocoData resolves with for a loco of a master list; NotFoundResult
\* for any other
FoundResult(searchLocoNo) ==
    [details |-> [locono |-> searchLocoNo], schedules |-> <<>>, failures |-> <<>>,
     wag7Modifications |-> <<>>, locoType |-> "WAG7"]

\* the ways the promise of getLocoData settles
Settlements(searchLocoNo) ==
    IF trim(searchLocoNo) = T_22003
    THEN {Returned(FoundResult(searchLocoNo)), Threw}
    ELSE {Returned(NotFoundResult), Threw}

\* handleSearch up to its await; SearchBar hands over the query of the form,
\* whose input and button are disabled while isLoading
HandleSearch(searchLocoNo) ==
    /\ view = "home"
    /\ ~isLoading
    /\ searches < MaxSearches
    /\ searches' = searches + 1
    /\ lastCall' = [op |-> "handleSearch", searchLocoNo |-> searchLocoNo]
    /\ IF trim(searchLocoNo) = <<>>
       THEN /\ error' = [message |-> "Please enter a locomotive number."]
            /\ UNCHANGED <<pageLocoNo, isLoading, pageData, pending>>
       ELSE /\ isLoading' = TRUE
            /\ error' = Null
            /\ pageData' = Null
            /\ pageLocoNo' = searchLocoNo
            /\ pending' = pending \cup {[id |-> searches + 1, searchLocoNo |-> searchLocoNo]}
    /\ UNCHANGED <<allFailures, lastResult, view, qVars, editVars, viewVars>>

\* the same as it would be if setIsLoading(false) were the last statement of
\* the try block
SettledWithoutFinally(searchLocoNo, settlement) ==
    /\ lastResult' = settlement
    /\ IF settlement.threw
       THEN /\ error' = [message |-> "Failed to fetch data. The Google Sheet might be inaccessible or the data format is incorrect."]
            /\ UNCHANGED <<pageData, isLoading>>
       ELSE IF settlement.value.details = Null
       THEN /\ error' = [message |-> "No details found for locomotive #",
                         searchLocoNo |-> searchLocoNo]
            /\ pageData' = Null
            /\ isLoading' = FALSE
       ELSE /\ pageData' = settlement.value
            /\ isLoading' = FALSE
            /\ UNCHANGED error

\* handleSearch from its await on: the try, catch and finally blocks
Settled(searchLocoNo, settlement) ==
    /\ lastResult' = settlement
    /\ IF settlement.threw
       THEN /\ error' = [message |-> "Failed to fetch data. The Google Sheet might be inaccessible or the data format is incorrect."]
            /\ UNCHANGED pageData
       ELSE IF settlement.value.details = Null
       THEN /\ error' = [message |-> "No details found for locomotive #",
                         searchLocoNo |-> searchLocoNo]
            /\ pageData' = Null
       ELSE /\ pageData' = settlement.value
            /\ UNCHANGED error
    /\ isLoading' = FALSE

SearchSettles(search, settlement) ==
    /\ search \in pending
    /\ pending' = pending \ {search}
    /\ Settled(search.searchLocoNo, settlement)
    /\ UNCHANGED <<allFailures, lastCall, pageLocoNo, view, searches, qVars, editVars, viewVars>>

HandleGoHome ==
    /\ lastCall' = [op |-> "handleGoHome"]
    /\ view' = "home"
    /\ pageData' = Null
    /\ error' = Null
    /\ pageLocoNo' = <<>>
    /\ UNCHANGED <<allFailures, lastResult, isLoading, pending, searches, qVars, editVars, viewVars>>

\* the cards of the home page and onBack of the summary pages
SetView(v) ==
    /\ IF v = "home" THEN view # "home" ELSE view = "home"
    /\ view' = v
    /\ UNCHANGED <<sumVars, qVars, editVars, viewVars, pageLocoNo, isLoading, error,
                   pageData, pending, searches>>

SomeSearchSettles ==
    \E search \in pending :
        \E settlement \in Settlements(search.searchLocoNo) : SearchSettles(search, settlement)

NextApp ==
    \/ \E searchLocoNo \in SearchQueries : HandleSearch(searchLocoNo)
    \/ SomeSearchSettles
    \/ HandleGoHome
    \/ \E v \in {"home", "summary", "failuresSummary"} : SetView(v)

-----------------------------------------------------------------------------
(* The specifications *)

\* no failure is loaded, no call, no query and no edit request has been made;
\* the master spreadsheet is ss
InitWith(ss) ==
    /\ allFailures = <<>>
    /\ lastCall = NoCall
    /\ lastResult = Null
    /\ locoNo = <<>>
    /\ pc = "idle"
    /\ fetchState = [s \in Sheets |-> "idle"]
    /\ fetched = [s \in Sheets |-> <<>>]
    /\ issued = {}
    /\ keys = [s \in Sheets |-> Undefined]
    /\ details = Null
    /\ locoType = "null"
    /\ result = Null
    /\ spreadsheet = ss
    /\ posts = 0
    /\ modalError = Null
    /\ filteredFailures = <<>>
    /\ startDate = <<>>
    /\ endDate = <<>>
    /\ pageLocoNo = <<>>
    /\ isLoading = FALSE
    /\ error = Null
    /\ pageData = Null
    /\ view = "home"
    /\ pending = {}
    /\ searches = 0

Init == InitWith(MasterSpreadsheet)

\* the master spreadsheet is one of the samples, no request has been handled
InitEdit == \E ss \in SampleSpreadsheets : InitWith(ss)

SpecSummary == Init /\ [][NextSummary]_vars

SpecQuery == Init /\ [][NextQuery]_vars

SpecCalls == Init /\ [][NextCalls]_vars

SpecEdit == InitEdit /\ [][NextEdit]_vars

SpecFilter == Init /\ [][NextFilter]_vars

SpecApp == Init /\ [][NextApp]_vars

\* the promise of getLocoData settles: every retrieval it awaits ends with a
\* response or with a network error
SpecAppFair == SpecApp /\ WF_vars(SomeSearchSettles)

-----------------------------------------------------------------------------
(* Properties of the edit endpoint *)

\* the token of the request is there and the tokeninfo service gives a
\* verified e-mail of the allow-list for it
AllowListed(contents) ==
    /\ contents # NotJson
    /\ contents.idToken # Undefined
    /\ \E email \in AUTHORIZED_USERS :
          TokenInfoOf(contents.idToken)
              = [threw |-> FALSE, value |-> [email |-> email, email_verified |-> TRUE]]

\* C20: doPost changes the master spreadsheet, a cell or a log sheet, only
\* for a request whose token is present and validates to a verified e-mail of
\* the allow-list; every other request gets an error response and leaves
\* every cell and every log sheet as it was.
C20_OnlyAllowListedChange ==
    [][(lastCall'.op = "doPost" /\ ~AllowListed(lastCall'.contents)) =>
           (spreadsheet' = spreadsheet /\ lastResult'.status = "error")]_vars

\* after an edit of the editor, a request of a user outside the allow-list
\* was refused and the edited sheet and its log were left as they were
C20_Witness ==
    /\ posts = 2
    /\ lastCall.op = "doPost"
    /\ lastCall.contents # NotJson
    /\ lastCall.contents.idToken = T_tokStranger
    /\ lastCall.contents.newCauseOfFailure = <<>>
    /\ lastResult = [status |-> "error", message |-> "User is not authorized."]
    /\ "WAG7_Edit_Log" \in DOMAIN spreadsheet
    /\ Len(spreadsheet["WAG7_Edit_Log"]) = 2
    /\ spreadsheet[WAG7_MASTER_TAB_NAME][2][3] = Str(T_new)

\* the tab and the log sheet of the fleet a request names
TabOf(contents) ==
    IF contents.locoType = S_WAG7 THEN "22-23 Traction Failures" ELSE "22-23 Diesel Failures"
LogOf(contents) == IF contents.locoType = S_WAG7 THEN "WAG7_Edit_Log" ELSE "WDG4_Edit_Log"

\* the column of the cause in a tab, by its header
CauseColumn(tab) ==
    CHOOSE j \in 1..Len(tab[1]) : tab[1][j] \in {Str(T_CauseOfFailure), Str(T_ShedInvestigation)}

\* the rows a log sheet holds before a request; its header when it is made
LogBefore(ss, log) == IF log \in DOMAIN ss THEN ss[log] ELSE <<LogHeader>>

\* the entry records the user, the loco, the date, the old and the new cause
EntryRecords(entry, contents, oldCause) ==
    /\ entry[2] = Str(TokenInfoOf(contents.idToken).value.email)
    /\ entry[3] = Str(contents.locoNo)
    /\ entry[4] = Str(contents.dateFailed)
    /\ entry[6] = oldCause
    /\ entry[7] = Str(contents.newCauseOfFailure)

\* row i of the tab got the new cause and the log sheet got one entry for it
EditedAndLogged(before, after, contents, i) ==
    /\ after[TabOf(contents)][i][CauseColumn(before[TabOf(contents)])]
          = Str(contents.newCauseOfFailure)
    /\ LogOf(contents) \in DOMAIN after
    /\ Len(after[LogOf(contents)]) = Len(LogBefore(before, LogOf(contents))) + 1
    /\ SubSeq(after[LogOf(contents)], 1, Len(LogBefore(before, LogOf(contents))))
          = LogBefore(before, LogOf(contents))
    /\ EntryRecords(after[LogOf(contents)][Len(after[LogOf(contents)])], contents,
                    before[TabOf(contents)][i][CauseColumn(before[TabOf(contents)])])

\* C21: every request doPost answers with status 'success' has set the cause
\* cell of a row of the fleet's tab to the new cause and has appended exactly
\* one entry to the fleet's Edit_Log sheet, with the user, the loco, the date,
\* the old cause and the new cause; no success leaves a cell changed without
\* its entry.
C21_SuccessIsEditedAndLogged ==
    [][(lastCall'.op = "doPost" /\ lastResult'.status = "success") =>
           \E i \in 2..Len(spreadsheet[TabOf(lastCall'.contents)]) :
               EditedAndLogged(spreadsheet, spreadsheet', lastCall'.contents, i)]_vars

\* two edits of the traction sheet were answered with success: the log sheet
\* holds its header and two entries
C21_Witness ==
    /\ posts = 2
    /\ lastCall.op = "doPost"
    /\ lastResult.status = "success"
    /\ "WAG7_Edit_Log" \in DOMAIN spreadsheet
    /\ Len(spreadsheet["WAG7_Edit_Log"]) = 3
    /\ spreadsheet["WAG7_Edit_Log"][3][6] = Str(T_new)
    /\ spreadsheet["WAG7_Edit_Log"][3][7] = Str(<<>>)
    /\ spreadsheet["22-23 Traction Failures"][2][3] = Str(<<>>)

\* the columns of the loco number and of the date in a tab, by their headers;
\* 0 when the tab has no such column
ColumnOf(tab, labels) ==
    IF \E j \in 1..Len(tab[1]) : tab[1][j] \in {Str(l) : l \in labels}
    THEN CHOOSE j \in 1..Len(tab[1]) : tab[1][j] \in {Str(l) : l \in labels}
    ELSE 0

\* the cell holds the requested id: a text cell the same text, a number cell
\* the numeral of its number
SameId(cell, id) ==
    IF cell.type = "number" THEN Numeric(id) /\ DecimalValue(id) = cell.num
    ELSE cell.str = id

\* the same, a number cell also being equal to its numeral within blanks
LooselySameId(cell, id) ==
    IF cell.type = "number" THEN SameId(cell, trim(id)) ELSE cell.str = id

\* row i of the tab is the first whose id and date are the requested ones
FirstWithIdAndDate(tab, i, contents, loosely) ==
    /\ ColumnOf(tab, {T_LocoNo, T_Loco}) # 0
    /\ ColumnOf(tab, {T_DateFailed, T_DateOfFailure}) # 0
    /\ \A k \in 2..i :
          (/\ IF loosely
              THEN LooselySameId(tab[k][ColumnOf(tab, {T_LocoNo, T_Loco})], contents.locoNo)
              ELSE SameId(tab[k][ColumnOf(tab, {T_LocoNo, T_Loco})], contents.locoNo)
           /\ tab[k][ColumnOf(tab, {T_DateFailed, T_DateOfFailure})].str = contents.dateFailed)
          <=> (k = i)

\* the tabs of data are as they were, but for the cause cell of row i of tab
OnlyCauseOfRowChanged(before, after, name, i) ==
    \A t \in {"22-23 Traction Failures", "22-23 Diesel Failures"} \cap DOMAIN before :
        /\ t \in DOMAIN after
        /\ Len(after[t]) = Len(before[t])
        /\ \A k \in 1..Len(before[t]) :
              /\ Len(after[t][k]) = Len(before[t][k])
              /\ \A j \in 1..Len(before[t][k]) :
                    after[t][k][j] # before[t][k][j] =>
                        (t = name /\ k = i /\ j = CauseColumn(before[t]))

DataUnchanged(before, after) ==
    \A t \in {"22-23 Traction Failures", "22-23 Diesel Failures"} \cap DOMAIN before :
        t \in DOMAIN after /\ after[t] = before[t]

\* what a step of doPost does to the data, the id being compared loosely or not
RowFrame(before, after, contents, response, loosely) ==
    /\ ~DataUnchanged(before, after) =>
          \E i \in 2..Len(before[TabOf(contents)]) :
              /\ FirstWithIdAndDate(before[TabOf(contents)], i, contents, loosely)
              /\ OnlyCauseOfRowChanged(before, after, TabOf(contents), i)
    /\ response.message = "Record not found in Master Sheet" =>
          /\ after = before
          /\ \A i \in 2..Len(before[TabOf(contents)]) :
                ~FirstWithIdAndDate(before[TabOf(contents)], i, contents, loosely)

\* C22 as claimed: a step of doPost changes the data only in the cause cell of
\* the first row whose identifier cell equals the requested id and whose date
\* cell displays exactly the requested date, every other cell staying as it
\* was; the record-not-found error is given with nothing changed and no such
\* row in the sheet.
C22_Claimed_RowOfEqualId ==
    [][lastCall'.op = "doPost" /\ lastCall'.contents # NotJson =>
           RowFrame(spreadsheet, spreadsheet', lastCall'.contents, lastResult', FALSE)]_vars

\* C22 as amended: the same, the identifier being compared with JavaScript's
\* loose equality: a text cell equals the same text, a number cell equals
\* every text that converts to its number, such as the numeral within blanks.
C22_RowOfLooselyEqualId ==
    [][lastCall'.op = "doPost" /\ lastCall'.contents # NotJson =>
           RowFrame(spreadsheet, spreadsheet', lastCall'.contents, lastResult', TRUE)]_vars

\* loco 22003 has two rows of 15-04-24 in the traction sheet: the first one
\* got the new cause, the second one kept its cause
C22_Witness ==
    /\ lastCall.op = "doPost"
    /\ lastResult.status = "success"
    /\ lastCall.contents.locoNo = T_22003
    /\ lastCall.contents.newCauseOfFailure = T_new
    /\ spreadsheet["22-23 Traction Failures"][2][3] = Str(T_new)
    /\ spreadsheet["22-23 Traction Failures"][3][3] = Str(T_dup)

\* some request that changes nothing in the spreadsheet is answered with this
\* response
AnswerOfNoChange(ss, response) ==
    \E contents \in PostContents, env \in {"ok", "openFails", "logFails"} :
        /\ doPost(contents, env, ss).spreadsheet = ss
        /\ doPost(contents, env, ss).response = response

\* C23 as claimed: a step of doPost that wrote a cell of the data is answered
\* with a response that no request leaving the spreadsheet unchanged is
\* answered with; so a cell written without its log entry is told apart
\* from a request that did nothing.
C23_Claimed_ChangeIsTold ==
    [][lastCall'.op = "doPost" /\ ~DataUnchanged(spreadsheet, spreadsheet') =>
           ~AnswerOfNoChange(spreadsheet, lastResult')]_vars

\* the request is one that EditFailureModal posts for a record of the master
\* sheets, with the token of an authorized user
SubmittedByEditor(contents) ==
    \E failure \in EditedFailures, causeOfFailure \in {T_new, <<>>} :
        contents = SubmittedBody(failure, causeOfFailure, T_tokEditor)

\* C28 as claimed: a request posted by EditFailureModal for an existing record
\* with the token of an authorized user carries everything the endpoint
\* validates, the fleet 'WAG7' or 'WDG4' included, and is never answered with
\* one of the errors of the input validation.
C28_Claimed_ClientRequestIsValid ==
    [][lastCall'.op = "doPost" /\ SubmittedByEditor(lastCall'.contents) =>
           /\ lastCall'.contents.locoType \in {S_WAG7, S_WDG4}
           /\ lastResult'.message \notin {"Missing auth token.", "Missing required fields.",
                                           "Invalid Loco Type."}]_vars

-----------------------------------------------------------------------------
(* Properties of the normalized keys *)

OnlyLowerAndDigits(key) == \A i \in 1..Len(key) : IsLower(key[i]) \/ IsDigit(key[i])

\* C25: every key of a record parsed with normalized keys is made of the
\* characters a-z and 0-9 only (it may be empty), and normalizing the key
\* again returns the key.
C25_NormalizedKeyIsFixedPoint ==
    (ParseCalled /\ lastCall.normalizeKeys /\ ~lastResult.threw) =>
        \A i \in 1..Len(lastResult.value) :
            \A key \in KeySetOf(lastResult.value[i]) :
                OnlyLowerAndDigits(key) /\ normalizeLabel(key) = key

\* the label 'Z 7' was normalized to the key 'z7'
C25_Witness ==
    /\ ParseCalled
    /\ lastCall.normalizeKeys
    /\ lastCall.text = LabelText(<<"Z", " ", "7">>)
    /\ ~lastResult.threw
    /\ KeySetOf(lastResult.value[1]) = {<<"z", "7">>}

-----------------------------------------------------------------------------
(* Properties of the date filter *)

\* the positions of a list in increasing order: a sub-list in the list's order
SubListOfAll(refs) ==
    /\ \A i \in 1..Len(refs) : refs[i] \in 1..Len(allFailures)
    /\ \A i, j \in 1..Len(refs) : i < j => refs[i] < refs[j]

\* a step of Apply or Clear: not one that types a date after them
FilterStep ==
    /\ lastCall'.op \in {"handleFilterApply", "handleFilterClear"}
    /\ ~(lastCall' = lastCall /\ <<startDate', endDate'>> # <<startDate, endDate>>)

\* C24: Apply and Clear leave allFailures and its records as they are; the
\* filtered list is a sub-list of allFailures in its order; after Clear, and
\* after Apply with both dates empty, it is allFailures.
C24_FilterKeepsLoadedList ==
    [][FilterStep =>
           /\ allFailures' = allFailures
           /\ SubListOfAll(filteredFailures')
           /\ (lastCall'.op = "handleFilterClear" \/ (startDate = <<>> /\ endDate = <<>>))
                  => filteredFailures' = AllRefs(Len(allFailures))]_vars

\* Apply with both dates empty has set the three loaded records, the one
\* without a date among them
C24_Witness ==
    /\ lastCall.op = "handleFilterApply"
    /\ startDate = <<>>
    /\ endDate = <<>>
    /\ Len(allFailures) = 3
    /\ \E ref \in 1..3 : ~HasDate(ref)
    /\ filteredFailures = <<1, 2, 3>>

\* the records of the filtered list whose date lies in the financial year
FilteredOfYear(fy) ==
    {filteredFailures[i] : i \in {j \in 1..Len(filteredFailures) :
        HasDate(filteredFailures[j]) /\ FyOf(filteredFailures[j]) = fy}}

\* the tables of sections A and C that count the record
TablesCounting(year, ref) ==
    {t \in {<<"A", 1>>, <<"A", 2>>, <<"C", 1>>, <<"C", 2>>} :
        ref \in ItemSet((IF t[1] = "A" THEN year.summaryA
                         ELSE year.summaryC).groups[t[2]].totals.total)}

\* C30: in every financial year of the WAG7 view the grand totals of
\* "ICMS Failures (Shed)" and of "Messages" add up to the grand total of the
\* Section Summary, which is the number of the year's filtered records; each
\* of these records is counted in exactly one of the four tables of A and C.
C30_SectionTotalsConserved ==
    lastCall.op = "WAG7SummaryView" =>
        \A fy \in DOMAIN lastResult :
            /\ lastResult[fy].summaryA.grandTotals.total.count
                  + lastResult[fy].summaryC.grandTotals.total.count
                  = lastResult[fy].summaryD.totals.total.count
            /\ lastResult[fy].summaryD.totals.total.count = Cardinality(FilteredOfYear(fy))
            /\ \A ref \in FilteredOfYear(fy) :
                  Cardinality(TablesCounting(lastResult[fy], ref)) = 1

\* three records are loaded and the filter has left out one of them; the year
\* 2024-25 of the view has one ICMS failure and one message
C30_Witness ==
    /\ lastCall.op = "WAG7SummaryView"
    /\ Len(allFailures) = 3
    /\ Len(filteredFailures) = 2
    /\ \E fy \in DOMAIN lastResult :
          /\ lastResult[fy].summaryA.grandTotals.total.count = 1
          /\ lastResult[fy].summaryC.grandTotals.total.count = 1
          /\ lastResult[fy].summaryD.totals.total.count = 2

-----------------------------------------------------------------------------
(* Properties of the search page *)

\* C26 as claimed: the error message and the result are never both set.
C26_Claimed_ErrorOrData == ~(error # Null /\ pageData # Null)

\* C27 as claimed: from handleGoHome until the next search is started the
\* page holds no result and no error.
C27_Claimed_HomeStaysCleared ==
    lastCall.op = "handleGoHome" => (pageData = Null /\ error = Null)

\* a step in which a search settles as rejected or as not found
SettlesWithoutRecord ==
    /\ pending' # pending
    /\ pending' \subseteq pending
    /\ (lastResult'.threw \/ lastResult'.value.details = Null)

\* C29: a search that has been started is eventually settled with isLoading
\* false; when it settles as rejected or as not found, an error message is set.
C29_SearchLeavesLoading ==
    /\ \A id \in 1..MaxSearches :
          (\E search \in pending : search.id = id)
              ~> (isLoading = FALSE /\ \A search \in pending : search.id # id)
    /\ [][SettlesWithoutRecord => error' # Null /\ ~isLoading']_vars

\* the second search, one for a loco that is in no list, has settled: the
\* page is not loading and shows the error of that search
C29_Witness ==
    /\ searches = 2
    /\ pending = {}
    /\ ~isLoading
    /\ lastResult = Returned(NotFoundResult)
    /\ error = [message |-> "No details found for locomotive #", searchLocoNo |-> T_99]

=============================================================================
